---- MODULE Spec2Model ----
(***************************************************************************)
(* Model of the Visual Library client (src/VisualLibrary.py and            *)
(* src/importer/importer.py): classification of a fetched METS document,   *)
(* lazy resolution of children and parent of an export element, the        *)
(* read-only setters, publication date extraction and numeric              *)
(* normalisation.                                                          *)
(*                                                                         *)
(* A document is the record                                                *)
(*   structmap : the document has a LOGICAL mets:structmap                 *)
(*   header    : [present, specs]   the <header> and its <setSpec> texts   *)
(*   meta      : [present, roles, pages]  the mets:dmdsec md<id>: the      *)
(*               marcrelator role terms in document order, and whether a   *)
(*               mods:extent unit=page exists                              *)
(*   secs      : the allow-listed mets:div elements in document order,     *)
(*               each [par, ptrs]: par is the position of the enclosing    *)
(*               div (0: the structmap itself), ptrs its direct mets:mptr  *)
(*   idpos     : position in secs of the div with id log<id> (0: none)     *)
(*   npages    : number of <div type=page> of the PHYSICAL structmap       *)
(* A resource pointer is [loctype, href, ident]: href is the document the  *)
(* URL answers with (0: the mptr has no xlink:href), ident tells whether   *)
(* the URL carries "identifier=".                                          *)
(***************************************************************************)
EXTENDS Integers, Sequences, FiniteSets, Bags, TLC

VARIABLES
    catalog,          \* what the remote endpoint answers: document id -> document
    objs,             \* the export elements constructed so far (a heap, by position)
    fetchLog,         \* the get_content_from_url calls so far, a bag of [by, url, what]
    last,             \* the last operation of the caller and how it ended
    first,            \* per element and lazy field: the value of its first completed access
    cdoc, ctype,      \* classification of one document: input and result
    dates, dtype, publication_date, ddone,   \* date extraction: input texts, class, result
    nstr, nres, ndone,                       \* numeric normalisation: input, result
    xml_files, file_pointer, got,    \* a Page: the document's mets:file elements, the
                                     \* page's mets:fptr ids, the last getter's result
    physical, page_list,             \* pages: the physical structmap and the list returned
    alto_xml, full_text,             \* a transcription and the string parsed from it
    xml_element, file, downloads,    \* a File: the element it is parsed from, its
    fcall,                           \* fields, the downloads of its data so far, and
                                     \* the last call on it: [op, outcome, text,
                                     \* debug_mode of the importer]
    mets, structure,                 \* a METS import: the document parsed, and what
                                     \* update_data leaves: [outcome, files per div]
    persons, extent, authors,        \* an Article: the mods:name elements and the page
    page_range,                      \* extent of its metadata, and the two fields
                                     \* extracted from them
    title_infos, languages, titles,  \* the mods:titleInfo elements and the languages
                                     \* of an element, and its title, subtitle, prefix
    query, found_section,            \* a search by label: the element's label, those
                                     \* of its sections and the arguments; the result
    ARTICLE_ID_COUNTER,              \* the exporter: the class attribute of Article,
    export_articles, export_call     \* the Articles constructed so far, the last call

vars == <<catalog, objs, fetchLog, last, first, cdoc, ctype,
          dates, dtype, publication_date, ddone, nstr, nres, ndone,
          xml_files, file_pointer, got, physical, page_list, alto_xml, full_text,
          xml_element, file, downloads, fcall,
          mets, structure, persons, extent, authors, page_range,
          title_infos, languages, titles, query, found_section,
          ARTICLE_ID_COUNTER, export_articles, export_call>>

resolverVars == <<catalog, objs, fetchLog, last, first>>
classifyVars == <<cdoc, ctype>>
dateVars == <<dates, dtype, publication_date, ddone>>
numVars == <<nstr, nres, ndone>>
pageVars == <<xml_files, file_pointer, got>>
physVars == <<physical, page_list>>
altoVars == <<alto_xml, full_text>>
fileVars == <<xml_element, file, downloads, fcall>>
langVars == <<mets, structure>>
artVars == <<persons, extent, authors, page_range>>
titleVars == <<title_infos, languages, titles>>
labelVars == <<query, found_section>>
exportVars == <<ARTICLE_ID_COUNTER, export_articles, export_call>>
lateVars == <<langVars, artVars, titleVars, labelVars, exportVars>>
docVars == <<pageVars, physVars, altoVars, fileVars, lateVars>>

\* ---------------------------------------------------------------- bounds
MaxObjs == 5
MaxFetches == 5
MaxSetSpecs == 2
MaxSections == 2
MaxRoles == 1
MaxDates == 2
MaxNumLen == 4
MaxAlternations == 18

\* ------------------------------------------------------------- utilities
SeqsUpTo(S, n) == UNION {[1..k -> S] : k \in 0..n}

RECURSIVE Flatten(_)
Flatten(ss) == IF ss = <<>> THEN <<>> ELSE Head(ss) \o Flatten(Tail(ss))

Min(S) == CHOOSE x \in S : \A y \in S : x <= y

\* ------------------------------------------------------ Type Classifier
NoneType == "None"
ExportTypes == {"Journal", "Volume", "Issue", "Article"}
Raised == {"AttributeError", "TypeError", "ImportError"}

VL_OBJECT_TYPES(spec) ==
    CASE spec = "article" -> "Article"
      [] spec = "book" -> "Volume"
      [] spec = "journal" -> "Journal"
      [] spec = "journal_issue" -> "Issue"
      [] spec = "journal_volume" -> "Volume"
      [] spec = "multivolumework" -> "Journal"
      [] spec = "periodical" -> "Journal"
      [] OTHER -> NoneType

RECURSIVE get_object_type_from_xml_header(_)
get_object_type_from_xml_header(specs) ==
    IF specs = <<>> THEN NoneType
    ELSE IF VL_OBJECT_TYPES(Head(specs)) # NoneType THEN VL_OBJECT_TYPES(Head(specs))
    ELSE get_object_type_from_xml_header(Tail(specs))

\* metadata.find(roleterm) is the FIRST role term of the block
is_author_in_metadata(meta) ==
    /\ meta.roles # <<>>
    /\ Head(meta.roles) \in {"aut", "asn"}

has_pages(meta) == meta.pages

\* the loop breaks at the first div that holds the id or whose enclosing
\* element is the one of the div before it
get_nesting_deepness_for_section(secs, idpos) ==
    LET Breaks(i) == \/ i = idpos
                     \/ (i > 1 /\ secs[i - 1].par = secs[i].par)
        hits == {i \in 1..Len(secs) : Breaks(i)}
    IN  IF hits = {} THEN Len(secs) ELSE Min(hits)

RECURSIVE IsInside(_, _, _)
IsInside(secs, j, i) ==
    IF j = 0 THEN FALSE
    ELSE IF secs[j].par = i THEN TRUE
    ELSE IsInside(secs, secs[j].par, i)

\* the divs nested (at any depth) in div i, in document order
Subsections(secs, i) == {j \in 1..Len(secs) : IsInside(secs, j, i)}

subsections_have_resource_pointer(doc) ==
    \E j \in Subsections(doc.secs, doc.idpos) :
        \/ doc.secs[j].ptrs # <<>>
        \/ \E k \in Subsections(doc.secs, j) : doc.secs[k].ptrs # <<>>

\* as get_object_type_from_xml, but the author and page rule comes first
get_object_type_from_xml_meta_first(doc) ==
    IF ~doc.header.present THEN "AttributeError"
    ELSE IF doc.meta.present /\ is_author_in_metadata(doc.meta) /\ has_pages(doc.meta)
         THEN "Article"
    ELSE IF get_object_type_from_xml_header(doc.header.specs) # NoneType
         THEN get_object_type_from_xml_header(doc.header.specs)
    ELSE "TypeError"

get_object_type_from_xml(doc) ==
    IF ~doc.header.present THEN "AttributeError"
    ELSE IF get_object_type_from_xml_header(doc.header.specs) # NoneType
         THEN get_object_type_from_xml_header(doc.header.specs)
    ELSE IF ~doc.meta.present THEN "AttributeError"
    ELSE IF is_author_in_metadata(doc.meta) /\ has_pages(doc.meta) THEN "Article"
    ELSE IF doc.secs # <<>>
         THEN LET deepness == get_nesting_deepness_for_section(doc.secs, doc.idpos)
              IN  IF deepness = 1 THEN "Journal"
                  ELSE IF deepness >= 3 THEN "Issue"
                  ELSE IF doc.idpos = 0 THEN "AttributeError"
                  ELSE IF ~subsections_have_resource_pointer(doc) THEN "Article"
                  ELSE "Volume"
    ELSE "TypeError"

\* ------------------------------------------------- the remote catalog
URL_STRING == "URL"

Ptr(loctype, href, ident) == [loctype |-> loctype, href |-> href, ident |-> ident]
U(d) == Ptr(URL_STRING, d, TRUE)
Sec(par, ptrs) == [par |-> par, ptrs |-> ptrs]

Doc(structmap, specs, roles, pages, secs, idpos, npages) ==
    [structmap |-> structmap,
     header |-> [present |-> TRUE, specs |-> specs],
     meta |-> [present |-> TRUE, roles |-> roles, pages |-> pages],
     secs |-> secs, idpos |-> idpos, npages |-> npages]

\* a response that is no catalog data (an image, an error page)
NotMets == Doc(FALSE, <<>>, <<>>, FALSE, <<>>, 0, 0)

\* document 1, the root the caller asked for: the div of the enclosing item
\* (with the pointers up), the own div, and three divs below it, one of them
\* nested in another
RootSecs(up) == << Sec(0, up),
                   Sec(1, <<>>),
                   Sec(2, <<U(2)>>),
                   Sec(3, <<Ptr("OTHER", 3, TRUE)>>),
                   Sec(2, <<Ptr(URL_STRING, 0, FALSE), U(3)>>) >>

\* documents 2 and 3: the div of the enclosing item, then the own div
ChildSecs(up, down) == << Sec(0, up), Sec(1, <<>>), Sec(2, down) >>

\* a response with a structmap that no rule can classify
Untyped == Doc(TRUE, <<"ddc:050">>, <<"isb">>, FALSE, <<>>, 0, 0)

Candidates(d) ==
    CASE d = 1 -> {Doc(TRUE, <<s>>, <<>>, FALSE, RootSecs(up), 2, 0) :
                      s \in {"journal", "journal_volume"},
                      up \in {<<U(4)>>, <<Ptr("OTHER", 4, TRUE)>>}}
      [] d = 2 -> {Doc(TRUE, <<"journal_volume">>, <<>>, FALSE, ChildSecs(<<U(1)>>, <<U(3)>>), 2, 0),
                   Doc(TRUE, <<"ddc:050">>, <<"aut">>, TRUE, ChildSecs(<<U(1)>>, <<>>), 2, 2),
                   NotMets}
      [] d = 3 -> {Doc(TRUE, <<"journal_issue">>, <<>>, FALSE, ChildSecs(<<U(1)>>, <<>>), 2, 0),
                   Doc(TRUE, <<"article">>, <<"aut">>, TRUE, ChildSecs(<<U(1)>>, <<>>), 2, 1),
                   Untyped}
      [] d = 4 -> {Doc(TRUE, <<"periodical">>, <<>>, FALSE, <<Sec(0, <<>>)>>, 1, 0),
                   Untyped,
                   NotMets}

Docs == 1..4

\* ------------------------------------------------ export elements (heap)
Obj(d, t, p) ==
    [doc |-> d, type |-> t, parent |-> p,
     articles |-> <<>>, articles_processed |-> FALSE,
     volumes |-> <<>>, volumes_processed |-> FALSE,
     issues |-> <<>>, sections_resolved |-> FALSE]

LazyFields == {"articles", "volumes", "issues", "elements", "parent"}
Unseen == [f \in LazyFields |-> <<>>]

\* MetsImporter.update_data: no LOGICAL structmap is an ImportError
update_data(doc) == IF doc.structmap THEN "ok" ELSE "ImportError"

\* VisualLibraryExportElement.__init__: the own section and its metadata
\* block are dereferenced while the eager fields are extracted
Construct(doc) ==
    IF doc.idpos = 0 \/ ~doc.meta.present THEN "AttributeError" ELSE "ok"

\* as create_section_instance, but without the except ImportError clause
create_section_instance_no_except(p) ==
    IF update_data(catalog[p.href]) # "ok" THEN update_data(catalog[p.href])
    ELSE IF ~p.ident THEN "AttributeError"
    ELSE IF get_object_type_from_xml(catalog[p.href]) \in Raised
         THEN get_object_type_from_xml(catalog[p.href])
    ELSE IF Construct(catalog[p.href]) # "ok" THEN Construct(catalog[p.href])
    ELSE get_object_type_from_xml(catalog[p.href])

\* the fetch has been issued; what the call ends in: "None" (skipped), an
\* exception, or the class of the new element
create_section_instance(p) ==
    IF update_data(catalog[p.href]) # "ok" THEN NoneType
    ELSE IF ~p.ident THEN "AttributeError"
    ELSE IF get_object_type_from_xml(catalog[p.href]) \in Raised
         THEN get_object_type_from_xml(catalog[p.href])
    ELSE IF Construct(catalog[p.href]) # "ok" THEN Construct(catalog[p.href])
    ELSE get_object_type_from_xml(catalog[p.href])

RECURSIVE resolve_resource_pointers(_, _)
resolve_resource_pointers(ptrs, acc) ==
    IF ptrs = <<>> THEN acc
    ELSE LET p == Head(ptrs)
             f == Append(acc.fetched, p.href)
         IN  IF p.loctype # URL_STRING \/ p.href = 0
             THEN resolve_resource_pointers(Tail(ptrs), acc)
             ELSE IF create_section_instance(p) \in Raised
             THEN [outcome |-> create_section_instance(p), fetched |-> f, kids |-> acc.kids]
             ELSE IF create_section_instance(p) = NoneType
             THEN resolve_resource_pointers(Tail(ptrs), [acc EXCEPT !.fetched = f])
             ELSE resolve_resource_pointers(Tail(ptrs),
                      [acc EXCEPT !.fetched = f,
                                  !.kids = Append(@, [doc |-> p.href,
                                                      type |-> create_section_instance(p)])])

\* self.sections: every allow-listed div below the own one, document order
SectionPtrs(doc) ==
    [j \in 1..Len(doc.secs) |->
        IF j \in Subsections(doc.secs, doc.idpos) THEN doc.secs[j].ptrs ELSE <<>>]

resolve_depending_sections(doc) ==
    resolve_resource_pointers(Flatten(SectionPtrs(doc)),
                              [outcome |-> "ok", fetched |-> <<>>, kids |-> <<>>])

get_list_by_type(kids, t) == SelectSeq(kids, LAMBDA k : k.type = t)

\* ----------------------------------------------------- lazy accessors
\* An accessor maps the heap and the log to what the call leaves behind:
\* [objs, fetchLog, outcome, value, lookups, seen]; value is the list the
\* caller gets (for parent: <<p>>, or <<>> for None), seen the lazy fields
\* whose getter returned during the call, each with the value it returned.
RECURSIVE Logged(_, _, _, _)
Logged(st, o, fetched, what) ==
    IF fetched = <<>> THEN st.fetchLog
    ELSE Logged([st EXCEPT !.fetchLog = @ (+) SetToBag({[by |-> o, url |-> Head(fetched), what |-> what]})],
                o, Tail(fetched), what)

Ret(objs_, log, fetched, outcome, value, lookups, seen) ==
    [objs |-> objs_, fetchLog |-> log, fetched |-> fetched, outcome |-> outcome,
     value |-> value, lookups |-> lookups, seen |-> seen]

NewIds(objs_, kept) == [i \in 1..Len(kept) |-> Len(objs_) + i]
\* as NewObjs, but the new elements are built without parent=self
NewObjs_orphans(kept, o) == [i \in 1..Len(kept) |-> Obj(kept[i].doc, kept[i].type, 0)]

NewObjs(kept, o) == [i \in 1..Len(kept) |-> Obj(kept[i].doc, kept[i].type, o)]

\* as articles_base, but the processed flag is never raised
articles_base_unflagged(st, o) ==
    LET r == resolve_depending_sections(catalog[st.objs[o].doc])
        kept == get_list_by_type(r.kids, "Article")
    IN  IF r.outcome # "ok"
        THEN Ret(st.objs, Logged(st, o, r.fetched, "child"), r.fetched, r.outcome, <<>>, 0, Unseen)
        ELSE Ret([st.objs EXCEPT ![o].articles = NewIds(st.objs, kept)] \o NewObjs(kept, o),
                 Logged(st, o, r.fetched, "child"), r.fetched, "ok", NewIds(st.objs, kept), 0,
                 [Unseen EXCEPT !.articles = <<NewIds(st.objs, kept)>>])

\* ArticleHandlingExportElement.articles (Journal, Issue)
articles_base(st, o) ==
    IF st.objs[o].articles_processed
    THEN Ret(st.objs, st.fetchLog, <<>>, "ok", st.objs[o].articles, 0,
             [Unseen EXCEPT !.articles = <<st.objs[o].articles>>])
    ELSE LET r == resolve_depending_sections(catalog[st.objs[o].doc])
             kept == get_list_by_type(r.kids, "Article")
         IN  IF r.outcome # "ok"
             THEN Ret(st.objs, Logged(st, o, r.fetched, "child"), r.fetched, r.outcome, <<>>, 0, Unseen)
             ELSE Ret([st.objs EXCEPT ![o].articles = NewIds(st.objs, kept),
                                      ![o].articles_processed = TRUE]
                          \o NewObjs(kept, o),
                      Logged(st, o, r.fetched, "child"), r.fetched, "ok", NewIds(st.objs, kept), 0,
                      [Unseen EXCEPT !.articles = <<NewIds(st.objs, kept)>>])

\* as volumes, but a pass that raises keeps what it had collected and
\* raises the flag
volumes_partial(st, o) ==
    IF st.objs[o].volumes_processed
    THEN Ret(st.objs, st.fetchLog, <<>>, "ok", st.objs[o].volumes, 0,
             [Unseen EXCEPT !.volumes = <<st.objs[o].volumes>>])
    ELSE LET r == resolve_depending_sections(catalog[st.objs[o].doc])
             kept == get_list_by_type(r.kids, "Volume")
         IN  IF r.outcome # "ok"
             THEN Ret([st.objs EXCEPT ![o].volumes = NewIds(st.objs, kept),
                                      ![o].volumes_processed = TRUE]
                          \o NewObjs(kept, o),
                      Logged(st, o, r.fetched, "child"), r.fetched, r.outcome, <<>>, 0, Unseen)
             ELSE Ret([st.objs EXCEPT ![o].volumes = NewIds(st.objs, kept),
                                      ![o].volumes_processed = TRUE]
                          \o NewObjs(kept, o),
                      Logged(st, o, r.fetched, "child"), r.fetched, "ok", NewIds(st.objs, kept), 0,
                      [Unseen EXCEPT !.volumes = <<NewIds(st.objs, kept)>>])

\* Journal.volumes
volumes(st, o) ==
    IF st.objs[o].volumes_processed
    THEN Ret(st.objs, st.fetchLog, <<>>, "ok", st.objs[o].volumes, 0,
             [Unseen EXCEPT !.volumes = <<st.objs[o].volumes>>])
    ELSE LET r == resolve_depending_sections(catalog[st.objs[o].doc])
             kept == get_list_by_type(r.kids, "Volume")
         IN  IF r.outcome # "ok"
             THEN Ret(st.objs, Logged(st, o, r.fetched, "child"), r.fetched, r.outcome, <<>>, 0, Unseen)
             ELSE Ret([st.objs EXCEPT ![o].volumes = NewIds(st.objs, kept),
                                      ![o].volumes_processed = TRUE]
                          \o NewObjs(kept, o),
                      Logged(st, o, r.fetched, "child"), r.fetched, "ok", NewIds(st.objs, kept), 0,
                      [Unseen EXCEPT !.volumes = <<NewIds(st.objs, kept)>>])

\* Volume.issues with Volume._resolve_sections: one pass fills both lists
issues(st, o) ==
    IF st.objs[o].sections_resolved
    THEN Ret(st.objs, st.fetchLog, <<>>, "ok", st.objs[o].issues, 0,
             [Unseen EXCEPT !.issues = <<st.objs[o].issues>>])
    ELSE LET r == resolve_depending_sections(catalog[st.objs[o].doc])
             iss == get_list_by_type(r.kids, "Issue")
             art == get_list_by_type(r.kids, "Article")
             issIds == NewIds(st.objs, iss)
             artIds == [i \in 1..Len(art) |-> Len(st.objs) + Len(iss) + i]
         IN  IF r.outcome # "ok"
             THEN Ret(st.objs, Logged(st, o, r.fetched, "child"), r.fetched, r.outcome, <<>>, 0, Unseen)
             ELSE Ret([st.objs EXCEPT ![o].issues = issIds,
                                      ![o].articles = artIds,
                                      ![o].sections_resolved = TRUE,
                                      ![o].articles_processed = TRUE]
                          \o NewObjs(iss, o) \o NewObjs(art, o),
                      Logged(st, o, r.fetched, "child"), r.fetched, "ok", issIds, 0,
                      [Unseen EXCEPT !.issues = <<issIds>>])

\* as articles_volume, but with the getter Volume would inherit: a pass of
\* its own behind the articles flag
articles_volume_own_pass(st, o) == articles_base(st, o)

\* Volume.articles: "_ = self.issues; return self._articles"
articles_volume(st, o) ==
    LET a == issues(st, o)
    IN  IF a.outcome # "ok" THEN a
        ELSE [a EXCEPT !.value = a.objs[o].articles,
                       !.seen.articles = <<a.objs[o].articles>>]

articles(st, o) ==
    IF st.objs[o].type = "Volume" THEN articles_volume(st, o) ELSE articles_base(st, o)

\* the two lists of elements put together: the call ends where the first
\* getter that fails ends
elements_join(a, b) ==
    IF a.outcome # "ok" THEN a
    ELSE IF b.outcome # "ok" THEN [b EXCEPT !.seen = a.seen, !.fetched = a.fetched \o @]
    ELSE [b EXCEPT !.value = a.value \o b.value,
                   !.fetched = a.fetched \o @,
                   !.seen = [f \in LazyFields |->
                                IF f = "elements" THEN <<a.value \o b.value>>
                                ELSE IF b.seen[f] # <<>> THEN b.seen[f] ELSE a.seen[f]]]

\* Journal.elements = volumes + articles, Volume.elements = issues + articles,
\* Issue.elements = articles; the articles getter runs on what the first
\* getter left behind
elements(st, o) ==
    CHOOSE r \in UNION {{elements_join(a, b) : b \in {articles(a, o)}} :
                           a \in {IF st.objs[o].type = "Journal" THEN volumes(st, o)
                                   ELSE IF st.objs[o].type = "Volume" THEN issues(st, o)
                                   ELSE Ret(st.objs, st.fetchLog, <<>>, "ok", <<>>, 0, Unseen)}} :
        TRUE

\* the element enclosing the own div, and its first direct mptr of loctype URL
ParentPtrs(doc) ==
    IF doc.secs[doc.idpos].par = 0 THEN <<>>
    ELSE SelectSeq(doc.secs[doc.secs[doc.idpos].par].ptrs, LAMBDA p : p.loctype = URL_STRING)

\* VisualLibrary.get_element_from_url, after the fetch
get_element_from_url(doc) ==
    IF update_data(doc) # "ok" THEN update_data(doc)
    ELSE IF get_object_type_from_xml(doc) \in Raised THEN get_object_type_from_xml(doc)
    ELSE IF Construct(doc) # "ok" THEN Construct(doc)
    ELSE get_object_type_from_xml(doc)

\* VisualLibraryExportElement._get_parent
get_parent(st, o) ==
    LET ptrs == ParentPtrs(catalog[st.objs[o].doc])
        p == Head(ptrs)
        log == Logged(st, o, <<p.href>>, "parent")
        new == Len(st.objs) + 1
    IN  IF ptrs = <<>> THEN Ret(st.objs, st.fetchLog, <<>>, "ok", <<>>, 1, Unseen)
        ELSE IF p.href = 0 THEN Ret(st.objs, st.fetchLog, <<>>, "TypeError", <<>>, 1, Unseen)
        ELSE IF ~p.ident THEN Ret(st.objs, st.fetchLog, <<>>, "ok", <<>>, 1, Unseen)
        ELSE IF get_element_from_url(catalog[p.href]) \in Raised
             THEN Ret(st.objs, log, <<p.href>>, get_element_from_url(catalog[p.href]), <<>>, 1, Unseen)
        ELSE Ret([st.objs EXCEPT ![o].parent = new]
                     \o <<Obj(p.href, get_element_from_url(catalog[p.href]), 0)>>,
                 log, <<p.href>>, "ok", <<new>>, 1, Unseen)

\* as parent, but the cached _parent is not consulted
parent_uncached(st, o) ==
    LET r == get_parent(st, o)
    IN  IF r.outcome # "ok" THEN r
        ELSE [r EXCEPT !.seen.parent = <<r.value>>]

\* VisualLibraryExportElement.parent
parent(st, o) ==
    LET r == IF st.objs[o].parent = 0 THEN get_parent(st, o)
             ELSE Ret(st.objs, st.fetchLog, <<>>, "ok", <<st.objs[o].parent>>, 0, Unseen)
    IN  IF r.outcome # "ok" THEN r
        ELSE [r EXCEPT !.seen.parent = <<r.value>>]

\* ------------------------------------------------------ read-only setters
\* function_is_read_only builds the Exception and drops it: the call returns
function_is_read_only == "returned"

\* the lazy fields a class declares a setter for
Setters(t) ==
    CASE t = "Journal" -> {"articles", "volumes"}
      [] t = "Volume" -> {"issues"}
      [] t = "Issue" -> {"articles"}
      [] OTHER -> {}

\* properties without a setter: Volume.articles overrides the inherited
\* property with a getter only; elements and parent never have one
ComputedFields(t) ==
    CASE t = "Journal" -> {"articles", "volumes", "elements", "parent"}
      [] t = "Volume" -> {"articles", "issues", "elements", "parent"}
      [] t = "Issue" -> {"articles", "elements", "parent"}
      [] OTHER -> {"elements", "parent"}

setattr(t, f) ==
    IF f \in Setters(t)
    THEN (IF function_is_read_only = "raised" THEN "Exception" ELSE "ok")
    ELSE "AttributeError"

PageFields == {"full_text", "full_text_xml", "image_default_resolution",
               "image_max_resolution", "image_min_resolution", "thumbnail"}

\* every Page field has a setter that calls function_is_read_only
page_setattr(f) == IF function_is_read_only = "raised" THEN "Exception" ELSE "ok"

\* ------------------------------------------- numeric normalisation
\* a Python str is [none, s]: none for None, else the characters s
NoString == [none |-> TRUE, s |-> <<>>]
Str(s) == [none |-> FALSE, s |-> s]

Digits == {"0", "1", "2", "3", "4", "5", "6", "7", "8", "9"}
IsDigit(c) == c \in Digits

\* re.sub(pattern, repl, string, re.MULTILINE): the fourth positional
\* parameter of re.sub is count, and re.MULTILINE is 8
SubCount == 8

\* re.sub(r'\D+', '', s, count): drop the first count maximal runs of
\* non-digits; inrun tells whether the previous character was dropped
RECURSIVE sub_non_digits(_, _, _)
sub_non_digits(s, count, inrun) ==
    IF s = <<>> THEN <<>>
    ELSE IF IsDigit(Head(s)) THEN <<Head(s)>> \o sub_non_digits(Tail(s), count, FALSE)
    ELSE IF inrun THEN sub_non_digits(Tail(s), count, TRUE)
    ELSE IF count > 0 THEN sub_non_digits(Tail(s), count - 1, TRUE)
    ELSE s

remove_letters_from_alphanumeric_string(string) ==
    IF string.none THEN NoString
    ELSE Str(sub_non_digits(string.s, SubCount, FALSE))

\* ----------------------------------------------- publication date
AllDigits(s) == \A i \in 1..Len(s) : IsDigit(s[i])

\* re_date_period.match: (?<!.)[0-9]{4}-(?:[0-9]{4})?  anchored at 0
re_date_period(t) ==
    IF Len(t) >= 5 /\ AllDigits(SubSeq(t, 1, 4)) /\ t[5] = "-"
    THEN (IF Len(t) >= 9 /\ AllDigits(SubSeq(t, 6, 9))
          THEN Str(SubSeq(t, 1, 9)) ELSE Str(SubSeq(t, 1, 5)))
    ELSE NoString

\* length of the longest run of non-digits of t that starts at position i
RECURSIVE NonDigitRun(_, _)
NonDigitRun(t, i) ==
    IF i > Len(t) \/ IsDigit(t[i]) THEN 0 ELSE 1 + NonDigitRun(t, i + 1)

\* re_year_only.match: \D*[0-9]{4}(?!-)\D*  anchored at 0
re_year_only(t) ==
    LET k == NonDigitRun(t, 1)
    IN  IF /\ Len(t) >= k + 4
           /\ AllDigits(SubSeq(t, k + 1, k + 4))
           /\ (Len(t) >= k + 5 => t[k + 5] # "-")
        THEN Str(SubSeq(t, 1, k + 4 + NonDigitRun(t, k + 5)))
        ELSE NoString

\* Volume, Issue and Article override the extraction with year_only = True
YearOnly(t) == t \in {"Volume", "Issue", "Article"}

\* the loop over the date elements: the first text that matches decides
RECURSIVE extract_publication_date_from_metadata(_, _)
extract_publication_date_from_metadata(texts, year_only) ==
    IF texts = <<>> THEN NoString
    ELSE IF ~year_only /\ ~re_date_period(Head(texts)).none
         THEN re_date_period(Head(texts))
    ELSE IF ~re_year_only(Head(texts)).none
         THEN remove_letters_from_alphanumeric_string(re_year_only(Head(texts)))
    ELSE extract_publication_date_from_metadata(Tail(texts), year_only)

\* ------------------------------------------------------------ File
\* importer.File: a mets:file element is [id, size, created, flocat]; size is
\* the text of the SIZE attribute, created tells whether CREATED is absent,
\* in the expected format ("ok") or not ("bad"), flocat is the list of its
\* mets:flocat children as [loctype, href] (href 0: no xlink:href)
NoUrl == 0
NoData == [none |-> TRUE, b |-> <<>>]
Data(b) == [none |-> FALSE, b |-> b]

\* a fileid "IMG_<use>_<no>"; a mets:fptr without FILEID has NoId
FileId(use, no) == [use |-> use, no |-> no]
NoId == FileId("", 0)

FileElement(id, size, created, flocat) ==
    [present |-> TRUE, id |-> id, size |-> size, created |-> created, flocat |-> flocat]

\* xml_data.find(...) found no element
NoElement ==
    [present |-> FALSE, id |-> NoId, size |-> NoString, created |-> "absent", flocat |-> <<>>]

\* File.__init__
File ==
    [name |-> NoId, size |-> 0, date_uploaded |-> NoneType, url |-> NoUrl, data |-> NoData]

\* int(value) for a text of decimal digits; every other text is a ValueError
RECURSIVE IntOfDigits(_, _)
IntOfDigits(s, acc) ==
    IF s = <<>> THEN acc
    ELSE IntOfDigits(Tail(s),
                     acc * 10 + (CHOOSE n \in 0..9 :
                                    Head(s) = <<"0", "1", "2", "3", "4", "5", "6", "7", "8", "9">>[n + 1]))

IsIntText(s) == s # <<>> /\ \A i \in 1..Len(s) : IsDigit(s[i])

\* File.size setter: "if value is not None: self._size = int(value)"
size_setter(f, value) ==
    IF value.none THEN [outcome |-> "ok", file |-> f]
    ELSE IF IsIntText(value.s)
         THEN [outcome |-> "ok", file |-> [f EXCEPT !.size = IntOfDigits(value.s, 0)]]
    ELSE [outcome |-> "ValueError", file |-> f]

\* the loop over the mets:flocat children
RECURSIVE read_locations(_, _)
read_locations(f, locs) ==
    IF locs = <<>> THEN [outcome |-> "ok", file |-> f]
    ELSE IF Head(locs).loctype # URL_STRING THEN [outcome |-> "TypeError", file |-> f]
    ELSE IF Head(locs).href # NoUrl
         THEN read_locations([f EXCEPT !.url = Head(locs).href], Tail(locs))
    ELSE read_locations(f, Tail(locs))

\* File.parse_properties_from_xml_element: the fields are set one after the
\* other, and the first statement that raises ends the call
parse_properties_from_xml_element(f, el) ==
    IF ~el.present THEN [outcome |-> "AttributeError", file |-> f]
    ELSE IF size_setter(f, el.size).outcome # "ok" THEN size_setter(f, el.size)
    ELSE IF el.created = "bad"
         THEN [outcome |-> "ValueError",
               file |-> [size_setter(f, el.size).file EXCEPT !.name = el.id]]
    ELSE read_locations([size_setter(f, el.size).file EXCEPT
                             !.name = el.id,
                             !.date_uploaded = IF el.created = "ok" THEN "datetime" ELSE @],
                        el.flocat)

\* importer.DEBUG_FILE_DATA_CONTENT_BYTE_STRING
DEBUG_FILE_DATA_CONTENT_BYTE_STRING ==
    <<72, 101, 114, 101, 32, 99, 111, 117, 108, 100, 32, 98, 101, 32, 121,
      111, 117, 114, 32, 80, 68, 70, 32, 102, 105, 108, 101, 33>>

\* MetsImporter._get_file_from_metadata
get_file_from_metadata(el, debug_mode) ==
    IF parse_properties_from_xml_element(File, el).outcome # "ok"
    THEN parse_properties_from_xml_element(File, el)
    ELSE IF debug_mode
         THEN [outcome |-> "ok",
               file |-> [parse_properties_from_xml_element(File, el).file
                             EXCEPT !.data = Data(DEBUG_FILE_DATA_CONTENT_BYTE_STRING)]]
    ELSE parse_properties_from_xml_element(File, el)

\* what the remote endpoint holds at a URL, as bytes
Served(url) ==
    CASE url = 1 -> <<77>>
      [] url = 2 -> <<77, 97>>
      [] url = 3 -> <<255, 0, 16>>
      [] url = 4 -> <<60, 65, 62, 10>>
      [] OTHER -> <<>>

\* get_content_from_url: requests.get(None) raises MissingSchema
get_content_from_url(url) ==
    IF url = NoUrl THEN [outcome |-> "MissingSchema", content |-> <<>>]
    ELSE [outcome |-> "ok", content |-> Served(url)]

\* File.download_file_data_from_source
download_file_data_from_source(f) ==
    IF get_content_from_url(f.url).outcome # "ok"
    THEN [outcome |-> get_content_from_url(f.url).outcome, file |-> f]
    ELSE [outcome |-> "ok", file |-> [f EXCEPT !.data = Data(get_content_from_url(f.url).content)]]

B64Alphabet ==
    <<"A", "B", "C", "D", "E", "F", "G", "H", "I", "J", "K", "L", "M", "N", "O",
      "P", "Q", "R", "S", "T", "U", "V", "W", "X", "Y", "Z", "a", "b", "c",
      "d", "e", "f", "g", "h", "i", "j", "k", "l", "m", "n", "o", "p", "q",
      "r", "s", "t", "u", "v", "w", "x", "y", "z", "0", "1", "2", "3", "4",
      "5", "6", "7", "8", "9", "+", "/">>

\* base64.b64encode, three bytes to four characters, "=" for the padding
RECURSIVE b64encode(_)
b64encode(b) ==
    IF b = <<>> THEN <<>>
    ELSE IF Len(b) = 1
         THEN <<B64Alphabet[(b[1] \div 4) + 1], B64Alphabet[((b[1] % 4) * 16) + 1], "=", "=">>
    ELSE IF Len(b) = 2
         THEN <<B64Alphabet[(b[1] \div 4) + 1],
                B64Alphabet[((b[1] % 4) * 16 + (b[2] \div 16)) + 1],
                B64Alphabet[((b[2] % 16) * 4) + 1], "=">>
    ELSE <<B64Alphabet[(b[1] \div 4) + 1],
           B64Alphabet[((b[1] % 4) * 16 + (b[2] \div 16)) + 1],
           B64Alphabet[((b[2] % 16) * 4 + (b[3] \div 64)) + 1],
           B64Alphabet[(b[3] % 64) + 1]>>
         \o b64encode(SubSeq(b, 4, Len(b)))

\* as get_data_in_base64_encoding, but the data is fetched on every call
get_data_in_base64_encoding_eager(f) ==
    IF download_file_data_from_source(f).outcome # "ok"
    THEN [outcome |-> download_file_data_from_source(f).outcome, file |-> f,
          text |-> NoString, fetched |-> 1]
    ELSE [outcome |-> "ok", file |-> download_file_data_from_source(f).file,
          text |-> Str(b64encode(download_file_data_from_source(f).file.data.b)), fetched |-> 1]

\* File.get_data_in_base64_encoding
get_data_in_base64_encoding(f) ==
    IF ~f.data.none
    THEN [outcome |-> "ok", file |-> f, text |-> Str(b64encode(f.data.b)), fetched |-> 0]
    ELSE IF download_file_data_from_source(f).outcome # "ok"
    THEN [outcome |-> download_file_data_from_source(f).outcome, file |-> f,
          text |-> NoString, fetched |-> 1]
    ELSE [outcome |-> "ok", file |-> download_file_data_from_source(f).file,
          text |-> Str(b64encode(download_file_data_from_source(f).file.data.b)), fetched |-> 1]

\* ------------------------------------------------------------ Page
\* A transcription is the list of its textline elements, each the list of
\* its child nodes [tag, content]: tag tells an element from a text node,
\* content is the CONTENT attribute of an element (NoString: absent).
Word(content) == [tag |-> TRUE, content |-> content]
TextNode == [tag |-> FALSE, content |-> NoString]

\* extract_text_from_tag: word.get('content', ' ') for a Tag, None otherwise
extract_text_from_tag(word) ==
    IF word.tag THEN (IF word.content.none THEN Str(<<" ">>) ELSE word.content)
    ELSE NoString

\* ''.join(line_text_array): a None in the list is a TypeError
RECURSIVE join(_)
join(texts) ==
    IF texts = <<>> THEN [outcome |-> "ok", text |-> <<>>]
    ELSE IF Head(texts).none THEN [outcome |-> "TypeError", text |-> <<>>]
    ELSE IF join(Tail(texts)).outcome # "ok" THEN join(Tail(texts))
    ELSE [outcome |-> "ok", text |-> Head(texts).s \o join(Tail(texts)).text]

line_text_array(line) == [i \in 1..Len(line) |-> extract_text_from_tag(line[i])]

\* the loop over the text lines: full_text = full_text + line + newline
RECURSIVE alto_lines(_, _)
alto_lines(lines, text) ==
    IF lines = <<>> THEN [outcome |-> "ok", text |-> text]
    ELSE IF join(line_text_array(Head(lines))).outcome # "ok"
         THEN [outcome |-> join(line_text_array(Head(lines))).outcome, text |-> <<>>]
    ELSE alto_lines(Tail(lines), text \o join(line_text_array(Head(lines))).text \o <<"\n">>)

\* as parse_alto_xml_to_full_text_string, but the last character is kept
parse_alto_xml_to_full_text_string_untrimmed(alto) ==
    alto_lines(alto, <<>>)

\* Page._parse_alto_xml_to_full_text_string: "return full_text[:-1]"
parse_alto_xml_to_full_text_string(alto) ==
    IF alto_lines(alto, <<>>).outcome # "ok" THEN alto_lines(alto, <<>>)
    ELSE [outcome |-> "ok",
          text |-> SubSeq(alto_lines(alto, <<>>).text, 1, Len(alto_lines(alto, <<>>).text) - 1)]

SUBSTRING_IN_DEFAULT_SCAN_IMAGE_ID == "DEFAULT"
SUBSTRING_IN_FULL_TEXT_ID == "ALTO"
SUBSTRING_IN_MAX_SCAN_IMAGE_ID == "MAX"
SUBSTRING_IN_MIN_SCAN_IMAGE_ID == "MIN"
SUBSTRING_IN_THUMBNAIL_ID == "THUMBS"

\* "substring in fileid" for a fileid "IMG_<use>_<no>"
Contains(substring, id) == id.use = substring

\* the transcription the bytes at a URL parse to
Transcript(url) ==
    IF url = 1 THEN << <<Word(Str(<<"a">>)), Word(NoString)>>, <<Word(Str(<<"a">>))>> >>
    ELSE <<>>

\* what a getter hands back: outcome, and the value by its kind
Value(outcome, kind, f, ptr, text) ==
    [outcome |-> outcome, kind |-> kind, file |-> f, pointer |-> ptr, text |-> text]

Raise(outcome) == Value(outcome, "raised", File, NoId, <<>>)
ReturnNone == Value("ok", "None", File, NoId, <<>>)

\* Page._get_resource_pointer_by_id_substring: the position of the first
\* pointer whose fileid contains the substring, 0 for the implicit None
get_resource_pointer_by_id_substring(fptrs, substring) ==
    IF \E i \in 1..Len(fptrs) : Contains(substring, fptrs[i])
    THEN Min({i \in 1..Len(fptrs) : Contains(substring, fptrs[i])})
    ELSE 0

\* self._xml_data.find('mets:file', {'id': resource_id})
find_file(files, resource_id) ==
    IF \E i \in 1..Len(files) : files[i].id = resource_id
    THEN files[Min({i \in 1..Len(files) : files[i].id = resource_id})]
    ELSE NoElement

\* as get_file_from_resource_id, but the first mets:file is taken whatever
\* its id
get_file_from_resource_id_first(files, resource_id) ==
    \* the AttributeError of parsing None becomes a ValueError
    IF parse_properties_from_xml_element(File, IF files = <<>> THEN NoElement ELSE Head(files)).outcome
           = "AttributeError"
    THEN [outcome |-> "ValueError", file |-> File]
    ELSE parse_properties_from_xml_element(File, IF files = <<>> THEN NoElement ELSE Head(files))

\* Page._get_file_from_resource_id
get_file_from_resource_id(files, resource_id) ==
    \* the AttributeError of parsing None becomes a ValueError
    IF parse_properties_from_xml_element(File, find_file(files, resource_id)).outcome
           = "AttributeError"
    THEN [outcome |-> "ValueError", file |-> File]
    ELSE parse_properties_from_xml_element(File, find_file(files, resource_id))

\* Page._get_file_from_id_substring: resource_pointer.get(...) on None is an
\* AttributeError
get_file_from_id_substring(fptrs, files, substring) ==
    IF get_resource_pointer_by_id_substring(fptrs, substring) = 0
    THEN [outcome |-> "AttributeError", file |-> File]
    ELSE get_file_from_resource_id(
             files, fptrs[get_resource_pointer_by_id_substring(fptrs, substring)])

FileGetters == {"thumbnail", "image_min_resolution", "image_default_resolution",
                "image_max_resolution"}

Marker(getter) ==
    CASE getter = "thumbnail" -> SUBSTRING_IN_THUMBNAIL_ID
      [] getter = "image_min_resolution" -> SUBSTRING_IN_MIN_SCAN_IMAGE_ID
      [] getter = "image_default_resolution" -> SUBSTRING_IN_DEFAULT_SCAN_IMAGE_ID
      [] getter = "image_max_resolution" -> SUBSTRING_IN_MAX_SCAN_IMAGE_ID
      [] getter \in {"full_text", "full_text_xml"} -> SUBSTRING_IN_FULL_TEXT_ID

\* Page.thumbnail and the three image getters
file_getter(fptrs, files, getter) ==
    IF get_file_from_id_substring(fptrs, files, Marker(getter)).outcome # "ok"
    THEN Raise(get_file_from_id_substring(fptrs, files, Marker(getter)).outcome)
    ELSE Value("ok", "File", get_file_from_id_substring(fptrs, files, Marker(getter)).file,
               NoId, <<>>)

\* Page.full_text_xml: the pointer itself, or None
get_full_text_xml(fptrs) ==
    IF get_resource_pointer_by_id_substring(fptrs, SUBSTRING_IN_FULL_TEXT_ID) = 0
    THEN ReturnNone
    ELSE Value("ok", "pointer", File,
               fptrs[get_resource_pointer_by_id_substring(fptrs, SUBSTRING_IN_FULL_TEXT_ID)],
               <<>>)

\* Page.full_text: the file is downloaded and its transcription parsed
get_full_text(fptrs, files) ==
    IF get_file_from_id_substring(fptrs, files, SUBSTRING_IN_FULL_TEXT_ID).outcome # "ok"
    THEN Raise(get_file_from_id_substring(fptrs, files, SUBSTRING_IN_FULL_TEXT_ID).outcome)
    ELSE IF download_file_data_from_source(
                get_file_from_id_substring(fptrs, files, SUBSTRING_IN_FULL_TEXT_ID).file).outcome
            # "ok"
    THEN Raise("MissingSchema")
    ELSE IF parse_alto_xml_to_full_text_string(
                Transcript(get_file_from_id_substring(fptrs, files,
                                                      SUBSTRING_IN_FULL_TEXT_ID).file.url)).outcome
            # "ok"
    THEN Raise("TypeError")
    ELSE Value("ok", "str", File, NoId,
               parse_alto_xml_to_full_text_string(
                   Transcript(get_file_from_id_substring(fptrs, files,
                                                         SUBSTRING_IN_FULL_TEXT_ID).file.url)).text)

page_getattr(fptrs, files, getter) ==
    IF getter \in FileGetters THEN file_getter(fptrs, files, getter)
    ELSE IF getter = "full_text_xml" THEN get_full_text_xml(fptrs)
    ELSE get_full_text(fptrs, files)

\* str.replace(old, ''): the occurrences of old are cut out left to right
RECURSIVE str_remove(_, _)
str_remove(s, old) ==
    IF Len(s) < Len(old) THEN s
    ELSE IF SubSeq(s, 1, Len(old)) = old THEN str_remove(SubSeq(s, Len(old) + 1, Len(s)), old)
    ELSE <<Head(s)>> \o str_remove(Tail(s), old)

PHYS == <<"p", "h", "y", "s">>

\* as extract_page_id_from_metadata, but the id is left as it is
extract_page_id_from_metadata_raw(div) == div.id

\* Page._extract_page_id_from_metadata: page_id_string.replace('phys', '')
extract_page_id_from_metadata(div) == str_remove(div.id, PHYS)

\* Page._extract_vl_page_id_from_metadata: re.sub(r'^phys', '', page_id)
extract_vl_page_id_from_metadata(div) ==
    IF /\ Len(extract_page_id_from_metadata(div)) >= 4
       /\ SubSeq(extract_page_id_from_metadata(div), 1, 4) = PHYS
    THEN SubSeq(extract_page_id_from_metadata(div), 5, Len(extract_page_id_from_metadata(div)))
    ELSE extract_page_id_from_metadata(div)

\* Page.__init__ on a div of the physical structmap
Page(div) ==
    [id |-> extract_page_id_from_metadata(div),
     vl_id |-> extract_vl_page_id_from_metadata(div),
     order |-> div.order]

PAGE_STRING == "page"

\* find_all(mets:div, TYPE=page) below the structmap, document order
page_divs(phys) == SelectSeq(phys.divs, LAMBDA d : d.type = PAGE_STRING)

\* as pages, but without the test for a missing physical structmap
pages_unguarded(cached, phys) ==
    IF ~cached.none THEN [outcome |-> "ok", value |-> cached.value]
    ELSE IF ~phys.present THEN [outcome |-> "AttributeError", value |-> <<>>]
    ELSE [outcome |-> "ok",
          value |-> [i \in 1..Len(page_divs(phys)) |-> Page(page_divs(phys)[i])]]

\* VisualLibraryExportElement.pages: cached is self._pages (none: None)
pages(cached, phys) ==
    IF ~cached.none THEN [outcome |-> "ok", value |-> cached.value]
    ELSE IF ~phys.present THEN [outcome |-> "ok", value |-> <<>>]
    ELSE [outcome |-> "ok",
          value |-> [i \in 1..Len(page_divs(phys)) |-> Page(page_divs(phys)[i])]]

\* ------------------------------------------------------ MetsImporter
\* A METS document as the importer reads it: [logical, divs, filegrp, debug].
\* divs are the allow-listed divs of the LOGICAL structmap in document
\* order, each [par, dmd, fptrs]: par is the allow-listed div around it
\* (0: none), dmd its metadata block, fptrs the FILEIDs of its direct
\* mets:fptr children. filegrp is the file group of USE DOWNLOAD.
NoDmd == [ref |-> FALSE, found |-> FALSE, langs |-> {}]
Dmd(found, langs) == [ref |-> TRUE, found |-> found, langs |-> langs]
MetsDiv(par, dmd, fptrs) == [par |-> par, dmd |-> dmd, fptrs |-> fptrs]
NoFileGroup == [present |-> FALSE, files |-> <<>>]
FileGroup(files) == [present |-> TRUE, files |-> files]

\* Section.__init__: languages is set() without DMDID or mods:language; a
\* DMDID that names no dmdsec leaves metadata None, and metadata.find raises
SectionLanguages(div) ==
    IF ~div.dmd.ref THEN [outcome |-> "ok", languages |-> {}]
    ELSE IF ~div.dmd.found THEN [outcome |-> "AttributeError", languages |-> {}]
    ELSE [outcome |-> "ok", languages |-> div.dmd.langs]

\* the member of self.structure whose tree of Sections holds div i
RECURSIVE TopOf(_, _)
TopOf(divs, i) == IF divs[i].par = 0 THEN i ELSE TopOf(divs, divs[i].par)

\* mets_file_group_download.find(attrs={'id': file_tag_id})
RECURSIVE find_file_metadata(_, _)
find_file_metadata(files, id) ==
    IF files = <<>> THEN NoElement
    ELSE IF Head(files).id = id THEN Head(files)
    ELSE find_file_metadata(Tail(files), id)

\* the loop over sec.file_pointers_data; section is the variable of the
\* loop "for section in self.structure" around the call
RECURSIVE resolve_file_pointers(_, _, _, _)
resolve_file_pointers(m, fptrs, section, files) ==
    IF fptrs = <<>> THEN [outcome |-> "ok", files |-> files]
    ELSE IF ~find_file_metadata(m.filegrp.files, Head(fptrs)).present
         THEN resolve_file_pointers(m, Tail(fptrs), section, files)
    ELSE IF get_file_from_metadata(find_file_metadata(m.filegrp.files, Head(fptrs)),
                                   m.debug).outcome # "ok"
         THEN [outcome |-> get_file_from_metadata(
                               find_file_metadata(m.filegrp.files, Head(fptrs)), m.debug).outcome,
               files |-> files]
    ELSE resolve_file_pointers(m, Tail(fptrs), section,
             Append(files,
                    [file |-> get_file_from_metadata(
                                  find_file_metadata(m.filegrp.files, Head(fptrs)), m.debug).file,
                     languages |-> SectionLanguages(m.divs[section]).languages]))

\* the files of the Sections in document order, up to the first call that
\* raises; every Section built for a div ends with the same files
RECURSIVE resolve_sections_from(_, _, _)
resolve_sections_from(m, i, acc) ==
    IF i > Len(m.divs) THEN [outcome |-> "ok", files |-> acc]
    ELSE IF resolve_file_pointers(m, m.divs[i].fptrs, TopOf(m.divs, i), <<>>).outcome # "ok"
         THEN [outcome |-> resolve_file_pointers(m, m.divs[i].fptrs,
                                                 TopOf(m.divs, i), <<>>).outcome,
               files |-> acc]
    ELSE resolve_sections_from(m, i + 1,
             Append(acc, resolve_file_pointers(m, m.divs[i].fptrs,
                                               TopOf(m.divs, i), <<>>).files))

\* MetsImporter._resolve_mets_internal_id_references_for_section
resolve_mets_internal_id_references_for_section(m) ==
    IF ~m.filegrp.present
    THEN [outcome |-> "ok", files |-> [i \in 1..Len(m.divs) |-> <<>>]]
    ELSE resolve_sections_from(m, 1, <<>>)

\* MetsImporter.update_data
mets_update_data(m) ==
    IF ~m.logical THEN [outcome |-> "ImportError", files |-> <<>>]
    ELSE IF \E i \in 1..Len(m.divs) : SectionLanguages(m.divs[i]).outcome # "ok"
         THEN [outcome |-> "AttributeError", files |-> <<>>]
    ELSE resolve_mets_internal_id_references_for_section(m)

\* ------------------------------------------------------------ Article
\* A mods:name element is [role, given, family, display, address]: role is
\* the text of its first marcrelator roleTerm, the others the texts of its
\* name parts (NoString: the element is absent).
Role(code) == [none |-> FALSE, s |-> code]
NoRole == [none |-> TRUE, s |-> ""]
Person(role, given, family, display, address) ==
    [role |-> role, given |-> given, family |-> family, display |-> display,
     address |-> address]

AUTHOR_SHORT_STRING == "aut"
PARTICIPATING_PERSON_SHORT_STRING == "asn"
PUBLISHER_SHORT_STRING == "isb"

\* VisualLibraryExportElement._get_authority_element_by_role
get_authority_element_by_role(names, role_type) ==
    SelectSeq(names, LAMBDA person : ~person.role.none /\ person.role.s = role_type)

\* "x.text if x is not None else ''"
TextOrEmpty(x) == IF x.none THEN <<>> ELSE x.s

\* the body of the loop: Author(given_name, family_name, title)
Author(person) ==
    [given_name |-> IF TextOrEmpty(person.given) = <<>> /\ TextOrEmpty(person.display) # <<>>
                    THEN TextOrEmpty(person.display)
                    ELSE TextOrEmpty(person.given),
     family_name |-> TextOrEmpty(person.family),
     title |-> TextOrEmpty(person.address)]

\* Article._extract_authors_from_metadata: the loop runs over
\* author_elements_in_metadata + participate_elements_in_metadata
extract_authors_from_metadata(names) ==
    [i \in 1..Len(get_authority_element_by_role(names, AUTHOR_SHORT_STRING)
                  \o get_authority_element_by_role(names, PARTICIPATING_PERSON_SHORT_STRING))
       |-> Author((get_authority_element_by_role(names, AUTHOR_SHORT_STRING)
                   \o get_authority_element_by_role(names,
                                                    PARTICIPATING_PERSON_SHORT_STRING))[i])]

\* the first mods:extent of unit page: [present, start, end, list], the
\* texts of its mods:start, mods:end and mods:list
Extent(start, end, list) == [present |-> TRUE, start |-> start, end |-> end, list |-> list]
NoExtent == [present |-> FALSE, start |-> NoString, end |-> NoString, list |-> NoString]

PageRange(start, end) == [outcome |-> "ok", none |-> FALSE, start |-> start, end |-> end]
NoPageRange == [outcome |-> "ok", none |-> TRUE, start |-> <<>>, end |-> <<>>]

\* Article._extract_page_range_from_metadata
extract_page_range_from_metadata(ext) ==
    IF ~ext.present THEN NoPageRange
    ELSE IF ~ext.start.none
         THEN IF ext.end.none
              THEN [outcome |-> "AttributeError", none |-> TRUE, start |-> <<>>, end |-> <<>>]
              ELSE PageRange(ext.start.s, ext.end.s)
    ELSE IF ~ext.list.none THEN PageRange(ext.list.s, <<>>)
    ELSE NoPageRange

\* ------------------------------------------------------------ titles
\* A mods:titleInfo element is [translated, title, nonsort, subtitle]:
\* translated tells whether its type is "translated", title and subtitle are
\* the texts of mods:title and mods:subTitle (NoString: no such element),
\* nonsort tells where its mods:nonSort lies: "none", "sibling" (beside
\* mods:title) or "nested" (first child of mods:title).
TitleInfo(translated, title, nonsort, subtitle) ==
    [translated |-> translated, title |-> title, nonsort |-> nonsort, subtitle |-> subtitle]

ISO_LANGUAGE_GERMAN == "ger"
ISO_LANGUAGE_ENGLISH == "eng"
ISO_LANGUAGE_FRENCH == "fre"
\* the keys a title map can get: a language, or None
LanguageKeys == {NoneType, ISO_LANGUAGE_GERMAN, ISO_LANGUAGE_ENGLISH, ISO_LANGUAGE_FRENCH}

\* the text of the mods:nonSort of the records
NonSortText == <<"D", "e", "r">>

\* str.strip() for the blank
RECURSIVE lstrip(_)
lstrip(s) == IF s # <<>> /\ Head(s) = " " THEN lstrip(Tail(s)) ELSE s

RECURSIVE rstrip(_)
rstrip(s) == IF s # <<>> /\ s[Len(s)] = " " THEN rstrip(SubSeq(s, 1, Len(s) - 1)) ELSE s

strip(s) == rstrip(lstrip(s))

\* title_element.text: the text of the element with that of its children
title_text(info) ==
    IF info.nonsort = "nested" THEN NonSortText \o info.title.s ELSE info.title.s

\* a field that is a plain value, and one that is a dict with the keys at
PlainValue(v) ==
    [map |-> FALSE, plain |-> v, keys |-> {}, at |-> [k \in LanguageKeys |-> NoString]]
DictOf(k, v) ==
    [map |-> TRUE, plain |-> NoString, keys |-> {k},
     at |-> [kk \in LanguageKeys |-> IF kk = k THEN v ELSE NoString]]
SetItem(d, k, v) == [d EXCEPT !.keys = @ \cup {k}, !.at[k] = v]

Titles(outcome, title, subtitle, prefix) ==
    [outcome |-> outcome, title |-> title, subtitle |-> subtitle, prefix |-> prefix]

\* VisualLibraryExportElement._guess_primary_language
guess_primary_language(langs) ==
    IF langs # <<>> THEN langs[1] ELSE NoneType

\* '{prefix} {title}'.format(...)
prefixed(prefix, title) == prefix \o <<" ">> \o title

\* VisualLibraryExportElement._add_translated_titles_to_title on the first
\* translated element tr; t holds the plain title, subtitle and prefix
add_translated_titles_to_title(t, tr, langs) ==
    IF tr.title.none
    THEN Titles("AttributeError",
                DictOf(guess_primary_language(langs), t.title.plain),
                DictOf(guess_primary_language(langs), t.subtitle.plain),
                DictOf(guess_primary_language(langs), t.prefix.plain))
    ELSE Titles("ok",
                SetItem(DictOf(guess_primary_language(langs), t.title.plain),
                        IF guess_primary_language(langs) # ISO_LANGUAGE_GERMAN
                        THEN ISO_LANGUAGE_GERMAN ELSE ISO_LANGUAGE_ENGLISH,
                        IF tr.nonsort # "none"
                        THEN Str(prefixed(NonSortText, title_text(tr)))
                        ELSE Str(title_text(tr))),
                SetItem(DictOf(guess_primary_language(langs), t.subtitle.plain),
                        IF guess_primary_language(langs) # ISO_LANGUAGE_GERMAN
                        THEN ISO_LANGUAGE_GERMAN ELSE ISO_LANGUAGE_ENGLISH,
                        tr.subtitle),
                SetItem(DictOf(guess_primary_language(langs), t.prefix.plain),
                        IF guess_primary_language(langs) # ISO_LANGUAGE_GERMAN
                        THEN ISO_LANGUAGE_GERMAN ELSE ISO_LANGUAGE_ENGLISH,
                        IF tr.nonsort # "none" THEN Str(NonSortText) ELSE NoString))

\* the plain fields read from the first mods:titleInfo of the metadata
plain_titles(info) ==
    Titles("ok",
           PlainValue(IF info.title.none THEN NoString
                      ELSE IF info.nonsort = "nested"
                           THEN Str(prefixed(strip(NonSortText), strip(title_text(info))))
                      ELSE Str(strip(title_text(info)))),
           PlainValue(IF info.subtitle.none THEN NoString ELSE Str(strip(info.subtitle.s))),
           PlainValue(IF ~info.title.none /\ info.nonsort = "nested"
                      THEN Str(strip(NonSortText)) ELSE NoString))

\* VisualLibraryExportElement._extract_titles_from_metadata
extract_titles_from_metadata(infos, langs) ==
    IF infos = <<>>
    THEN Titles("ok", PlainValue(NoString), PlainValue(NoString), PlainValue(NoString))
    ELSE IF SelectSeq(infos, LAMBDA info : info.translated) # <<>>
         THEN add_translated_titles_to_title(plain_titles(infos[1]),
                                             SelectSeq(infos, LAMBDA info : info.translated)[1],
                                             langs)
    ELSE plain_titles(infos[1])

\* ------------------------------------------------ search by label
\* "x in y" for two strings
IsSubstring(x, y) ==
    \E i \in 1..(Len(y) - Len(x) + 1) : SubSeq(y, i, i + Len(x) - 1) = x

SectionFound(which) == [outcome |-> "ok", which |-> which, fetched |-> 0]

\* the loop of find_section_by_label over self.sections from position i on;
\* labels are the labels of the sections (NoString: no LABEL). A Section has
\* resource_pointers and no attribute resource_pointer: the first statement
\* of the recursive branch raises, and nothing behind it ever runs.
RECURSIVE search_sections(_, _, _, _, _)
search_sections(labels, i, section_label, parent_labels, recursive) ==
    IF i > Len(labels) THEN SectionFound(NoneType)
    ELSE IF labels[i].none
         THEN search_sections(labels, i + 1, section_label, parent_labels, recursive)
    ELSE IF IsSubstring(labels[i].s, section_label) THEN SectionFound("section")
    ELSE IF recursive /\ \E k \in 1..Len(parent_labels) : parent_labels[k] = labels[i].s
         THEN [outcome |-> "AttributeError", which |-> NoneType, fetched |-> 0]
    ELSE search_sections(labels, i + 1, section_label, parent_labels, recursive)

\* VisualLibraryExportElement.find_section_by_label
find_section_by_label(q) ==
    IF ~q.label.none /\ q.label.s = q.section_label THEN SectionFound("own")
    ELSE search_sections(q.sections, 1, q.section_label, q.parent_labels, q.recursive)

\* ------------------------------------------ the caller's operations
St == [objs |-> objs, fetchLog |-> fetchLog]

IdleClassify == cdoc = NotMets /\ ctype = "pending"
IdleDate == dates = <<>> /\ dtype = "Journal" /\ publication_date = NoString /\ ddone = FALSE
IdleNum == nstr = NoString /\ nres = NoString /\ ndone = FALSE
IdlePage == xml_files = <<>> /\ file_pointer = <<>> /\ got = "idle"
IdlePhys == physical = "idle" /\ page_list = "idle"
IdleAlto == alto_xml = <<>> /\ full_text = "idle"
IdleFile == xml_element = "idle" /\ file = "idle" /\ downloads = 0 /\ fcall = "idle"
IdleLang == mets = "idle" /\ structure = "idle"
IdleArt == persons = <<>> /\ extent = "idle" /\ authors = "idle" /\ page_range = "idle"
IdleTitle == title_infos = <<>> /\ languages = <<>> /\ titles = "idle"
IdleLabel == query = "idle" /\ found_section = "idle"
IdleExport ==
    /\ ARTICLE_ID_COUNTER = 1
    /\ export_articles = <<>>
    /\ export_call = [outcome |-> "idle"]
IdleLate == IdleLang /\ IdleArt /\ IdleTitle /\ IdleLabel /\ IdleExport
IdleDocs == IdlePage /\ IdlePhys /\ IdleAlto /\ IdleFile /\ IdleLate

\* the call ends as r says; the bounds cut the run before the heap or the
\* log outgrows them
Finish(op, o, f, r) ==
    /\ Len(r.objs) <= MaxObjs
    /\ BagCardinality(r.fetchLog) <= MaxFetches
    /\ objs' = r.objs
    /\ fetchLog' = r.fetchLog
    /\ last' = [op |-> op, obj |-> o, field |-> f, outcome |-> r.outcome,
                value |-> r.value,
                fetched |-> r.fetched,
                lookups |-> r.lookups]
    /\ first' = [i \in 1..Len(r.objs) |->
                    IF i > Len(objs) THEN Unseen
                    ELSE IF i # o THEN first[i]
                    ELSE [f2 \in LazyFields |->
                             IF first[i][f2] = <<>> THEN r.seen[f2] ELSE first[i][f2]]]
    /\ UNCHANGED <<catalog, classifyVars, dateVars, numVars, docVars>>

GetArticles(o) ==
    /\ objs[o].type \in {"Journal", "Volume", "Issue"}
    /\ Finish("get", o, "articles", articles(St, o))

GetVolumes(o) ==
    /\ objs[o].type = "Journal"
    /\ Finish("get", o, "volumes", volumes(St, o))

GetIssues(o) ==
    /\ objs[o].type = "Volume"
    /\ Finish("get", o, "issues", issues(St, o))

GetElements(o) ==
    /\ objs[o].type \in {"Journal", "Volume", "Issue"}
    /\ Finish("get", o, "elements", elements(St, o))

GetParent(o) ==
    Finish("get", o, "parent", parent(St, o))

\* element.<f> = val for a lazy collection field of the element's class
SetField(o, f) ==
    /\ f \in ComputedFields(objs[o].type) \cap {"articles", "volumes", "issues"}
    /\ Finish("set", o, f,
              Ret(objs, fetchLog, <<>>, setattr(objs[o].type, f), <<>>, 0, Unseen))

\* page.<f> = val on a Page of the element's document
SetPageField(o, f) ==
    /\ catalog[objs[o].doc].npages > 0
    /\ Finish("setpage", o, f, Ret(objs, fetchLog, <<>>, page_setattr(f), <<>>, 0, Unseen))

\* the state after VisualLibrary().get_element_for_id(1) has returned
Init ==
    /\ catalog \in {c \in [Docs -> UNION {Candidates(d) : d \in Docs}] :
                       \A d \in Docs : c[d] \in Candidates(d)}
    /\ objs = <<Obj(1, get_object_type_from_xml(catalog[1]), 0)>>
    /\ fetchLog = SetToBag({[by |-> 0, url |-> 1, what |-> "root"]})
    /\ last = [op |-> "init", obj |-> 0, field |-> "", outcome |-> "ok", value |-> <<1>>,
               fetched |-> <<1>>, lookups |-> 0]
    /\ first = <<Unseen>>
    /\ IdleClassify /\ IdleDate /\ IdleNum /\ IdleDocs

Next ==
    \/ \E o \in 1..Len(objs) : GetArticles(o)
    \/ \E o \in 1..Len(objs) : GetVolumes(o)
    \/ \E o \in 1..Len(objs) : GetIssues(o)
    \/ \E o \in 1..Len(objs) : GetElements(o)
    \/ \E o \in 1..Len(objs) : GetParent(o)

Spec == Init /\ [][Next]_vars

\* the caller reads elements and assigns to the lazy fields
NextSet ==
    \/ \E o \in 1..Len(objs) : GetElements(o)
    \/ \E o \in 1..Len(objs), f \in LazyFields : SetField(o, f)
    \/ \E o \in 1..Len(objs), f \in PageFields : SetPageField(o, f)

SpecSet == Init /\ [][NextSet]_vars

\* ------------------------------------- classification of one document
IdleResolver ==
    /\ catalog = [d \in Docs |-> NotMets]
    /\ objs = <<>>
    /\ fetchLog = EmptyBag
    /\ last = [op |-> "init", obj |-> 0, field |-> "", outcome |-> "ok", value |-> <<>>,
               fetched |-> <<>>, lookups |-> 0]
    /\ first = <<>>

SetSpecs == {"article", "book", "journal", "journal_issue", "journal_volume",
             "multivolumework", "periodical", "document", "ddc:050"}
RoleCodes == {"aut", "asn", "isb"}

\* the setSpec lists of a header: each value alone, and the lists of several
\* values over two mapped and one unmapped value
SeveralSpecs == {"article", "journal", "ddc:050"}
HeaderSpecs == {<<s>> : s \in SetSpecs} \cup SeqsUpTo(SeveralSpecs, MaxSetSpecs)

\* the role terms of a metadata block in document order, one per person: the
\* short lists, and a block whose second person is the author
RoleLists == SeqsUpTo(RoleCodes, MaxRoles) \cup {<<"isb", "aut">>}

\* the allow-listed divs of a document in document order: the first lies in
\* the structmap, every other one in the one before it or in one that
\* encloses the one before it
SecLists ==
    UNION {{ss \in [1..n -> [par : 0..MaxSections, ptrs : {<<>>, <<U(1)>>}]] :
               \A i \in 1..n :
                   /\ ss[i].par < i
                   /\ i = 1 => ss[i].par = 0
                   /\ i > 1 => \/ ss[i].par \in {0, i - 1}
                               \/ IsInside(ss, i - 1, ss[i].par)}
           : n \in 0..MaxSections}

ClassifyInputs ==
    {[structmap |-> TRUE, header |-> h, meta |-> m, secs |-> ss, idpos |-> ip, npages |-> 0] :
        h \in {[present |-> FALSE, specs |-> <<>>]}
              \cup [present : {TRUE}, specs : HeaderSpecs],
        m \in {[present |-> FALSE, roles |-> <<>>, pages |-> FALSE]}
              \cup [present : {TRUE}, roles : RoleLists, pages : BOOLEAN],
        ss \in SecLists, ip \in 0..MaxSections}

InitClassify ==
    /\ cdoc \in {d \in ClassifyInputs : d.idpos <= Len(d.secs)}
    /\ ctype = "pending"
    /\ IdleResolver /\ IdleDate /\ IdleNum /\ IdleDocs

Classify ==
    /\ ctype = "pending"
    /\ ctype' = get_object_type_from_xml(cdoc)
    /\ UNCHANGED <<cdoc, resolverVars, dateVars, numVars, docVars>>

SpecClassify == InitClassify /\ [][Classify]_vars

\* ------------------------------------------ extraction of the date
Years == {<<"1", "9", "3", "7">>, <<"1", "9", "5", "4">>}

\* the texts of the date elements of a metadata block
DateTexts ==
    UNION {{y1, y1 \o <<"-">>, y1 \o <<"-">> \o y2, <<"[">> \o y1 \o <<"]">>,
            y1 \o <<"-", "5", "4">>, <<" ">> \o y1 \o <<"-">> \o y2,
            y1 \o <<" ", "-", " ">> \o y2, <<"o", ".", "J", ".">>}
           : y1 \in Years, y2 \in Years}

InitDate ==
    /\ dates \in SeqsUpTo(DateTexts, MaxDates)
    /\ dtype \in ExportTypes
    /\ publication_date = NoString
    /\ ddone = FALSE
    /\ IdleResolver /\ IdleClassify /\ IdleNum /\ IdleDocs

ExtractDate ==
    /\ ~ddone
    /\ publication_date' = extract_publication_date_from_metadata(dates, YearOnly(dtype))
    /\ ddone' = TRUE
    /\ UNCHANGED <<dates, dtype, resolverVars, classifyVars, numVars, docVars>>

SpecDate == InitDate /\ [][ExtractDate]_vars

\* --------------------------------------------- numeric normalisation
NumChars == {"1", "7", "a", " "}

\* digit and letter in turn, n characters
Alternating(n, digitFirst) ==
    [i \in 1..n |-> IF (i % 2 = 1) = digitFirst THEN "1" ELSE "a"]

NumInputs ==
    {NoString}
    \cup {Str(s) : s \in SeqsUpTo(NumChars, MaxNumLen)}
    \cup {Str(Alternating(n, b)) : n \in 0..MaxAlternations, b \in BOOLEAN}

InitNum ==
    /\ nstr \in NumInputs
    /\ nres = NoString
    /\ ndone = FALSE
    /\ IdleResolver /\ IdleClassify /\ IdleDate /\ IdleDocs

Normalize ==
    /\ ~ndone
    /\ nres' = remove_letters_from_alphanumeric_string(nstr)
    /\ ndone' = TRUE
    /\ UNCHANGED <<nstr, resolverVars, classifyVars, dateVars, docVars>>

SpecNum == InitNum /\ [][Normalize]_vars

\* =================================================================
\* Properties
\* =================================================================
Collections == {"articles", "volumes", "issues", "elements"}

\* the parent-document fetches that element o has issued, read off a log
ParentFetches(log, o) ==
    BagCardinality([r \in {x \in BagToSet(log) : x.by = o /\ x.what = "parent"} |-> log[r]])

\* C1: once a first access to articles, volumes, issues or elements of an
\* element has returned, every later access to that same field returns
\* normally, issues no fetch, and yields the same members in the same order.
C1_CachedCollections ==
    [][\A o \in 1..Len(objs) : \A f \in Collections :
          (first[o][f] # <<>> /\ last'.op = "get" /\ last'.obj = o /\ last'.field = f)
          => /\ last'.outcome = "ok"
             /\ last'.fetched = <<>>
             /\ fetchLog' = fetchLog
             /\ last'.value = first[o][f][1]]_vars

\* a non-empty collection came back without a single fetch: a repeated access
C1_Witness ==
    /\ last.op = "get" /\ last.field \in Collections /\ last.outcome = "ok"
    /\ last.value # <<>> /\ last.fetched = <<>>

\* C2 (as claimed): every assignment to a lazy field of an export element
\* or of a Page ends in an error.
C2_AssignmentRaises ==
    last.op \in {"set", "setpage"} => last.outcome # "ok"

\* C3 (as claimed): no element ever issues more than one parent-document
\* fetch, whatever the outcome of the fetches.
C3_AtMostOneParentFetch ==
    \A o \in 1..Len(objs) : ParentFetches(fetchLog, o) <= 1

\* C3 (amended): once an access to parent has returned an object, the
\* element issues no further parent-document fetch and every later access
\* returns that same object.
C3_ResolvedParentIsCached ==
    [][\A o \in 1..Len(objs) :
          (first[o]["parent"] # <<>> /\ first[o]["parent"][1] # <<>>)
          => /\ ParentFetches(fetchLog', o) = ParentFetches(fetchLog, o)
             /\ (last'.op = "get" /\ last'.obj = o /\ last'.field = "parent")
                => (last'.outcome = "ok" /\ last'.value = first[o]["parent"][1])]_vars

\* the parent was fetched once and a later access returned it from the cache
C3_Witness ==
    /\ last.op = "get" /\ last.field = "parent" /\ last.outcome = "ok"
    /\ last.value # <<>> /\ last.fetched = <<>>
    /\ ParentFetches(fetchLog, last.obj) = 1

\* C4 (as claimed): when the element enclosing the own div has no direct
\* mptr of loctype URL, the first access to parent returns None without a
\* fetch and every later access returns None without a fetch and without
\* running the parent lookup again.
C4_NoRepeatedLookup ==
    [][\A o \in 1..Len(objs) :
          (/\ ParentPtrs(catalog[objs[o].doc]) = <<>>
           /\ objs[o].parent = 0
           /\ last'.op = "get" /\ last'.obj = o /\ last'.field = "parent")
          => /\ last'.outcome = "ok" /\ last'.value = <<>> /\ last'.fetched = <<>>
             /\ first[o]["parent"] # <<>> => last'.lookups = 0]_vars

\* C5: every member of articles, volumes or issues of an element X, and
\* every member of a list an accessor of X has just returned, has X as its
\* parent, and reading that parent issues no fetch and runs no lookup.
Members(o) ==
    {objs[o].articles[i] : i \in 1..Len(objs[o].articles)}
    \cup {objs[o].volumes[i] : i \in 1..Len(objs[o].volumes)}
    \cup {objs[o].issues[i] : i \in 1..Len(objs[o].issues)}

Returned ==
    IF last.op = "get" /\ last.field \in Collections /\ last.outcome = "ok"
    THEN {last.value[i] : i \in 1..Len(last.value)} ELSE {}

C5_ChildrenKnowTheirParent ==
    \A o \in 1..Len(objs) :
        \A c \in Members(o) \cup (IF last.obj = o THEN Returned ELSE {}) :
            /\ parent(St, c).outcome = "ok"
            /\ parent(St, c).value = <<o>>
            /\ parent(St, c).fetched = <<>>
            /\ parent(St, c).lookups = 0
            /\ parent(St, c).fetchLog = fetchLog

\* the caller has read the parent of a member of a resolved collection
C5_Witness ==
    /\ last.op = "get" /\ last.field = "parent" /\ last.value # <<>>
    /\ last.obj \in Members(last.value[1])
    /\ last.fetched = <<>>

\* C6: when the header holds a setSpec with a known mapping, the class is
\* the one mapped to the first such setSpec, whatever the metadata block
\* and the nesting of the divs say.
KnownAt(specs) == {i \in 1..Len(specs) : VL_OBJECT_TYPES(specs[i]) # NoneType}

C6_HeaderWins ==
    (ctype # "pending" /\ cdoc.header.present /\ KnownAt(cdoc.header.specs) # {})
    => ctype = VL_OBJECT_TYPES(cdoc.header.specs[Min(KnownAt(cdoc.header.specs))])

\* the second setSpec decides for Journal although the first is unknown, the
\* metadata has an author with pages, and the id sits in a nested div
C6_Witness ==
    /\ ctype = "Journal"
    /\ Len(cdoc.header.specs) = 2 /\ KnownAt(cdoc.header.specs) = {2}
    /\ cdoc.meta.present /\ is_author_in_metadata(cdoc.meta) /\ has_pages(cdoc.meta)
    /\ cdoc.idpos = 2 /\ cdoc.secs[2].par = 1

\* C7 (as claimed): a header with exactly one of the listed setSpec values
\* classifies as periodical, journal, multivolumework -> Journal;
\* journal_volume, book -> Volume; journal_issue -> Issue;
\* article, document -> Article.
ClaimedType(spec) ==
    CASE spec \in {"periodical", "journal", "multivolumework"} -> "Journal"
      [] spec \in {"journal_volume", "book"} -> "Volume"
      [] spec = "journal_issue" -> "Issue"
      [] spec \in {"article", "document"} -> "Article"
      [] OTHER -> NoneType

C7_HeaderMapping ==
    (/\ ctype # "pending" /\ cdoc.header.present
     /\ Len(cdoc.header.specs) = 1
     /\ ClaimedType(cdoc.header.specs[1]) # NoneType)
    => ctype = ClaimedType(cdoc.header.specs[1])

\* C8 (as claimed): from a single date text of the shape YYYY-YYYY a Journal
\* gets the whole text, and a Volume, Issue or Article gets the first year.
IsDuration(t) ==
    /\ Len(t) = 9 /\ t[5] = "-"
    /\ AllDigits(SubSeq(t, 1, 4)) /\ AllDigits(SubSeq(t, 6, 9))

C8_DateOfDuration ==
    (ddone /\ Len(dates) = 1 /\ IsDuration(dates[1]))
    => publication_date = IF YearOnly(dtype) THEN Str(SubSeq(dates[1], 1, 4))
                          ELSE Str(dates[1])

\* C9 (as claimed): the result is the input without its non-digit
\* characters, and None for None.
C9_OnlyDigitsRemain ==
    ndone => nres = IF nstr.none THEN NoString
                    ELSE Str(SelectSeq(nstr.s, IsDigit))

\* C10: a pass over the child pointers in which no target fails fatally
\* returns normally, fetches the targets of the URL pointers one by one in
\* document order (sections in order, the pointers of a section in order),
\* and yields, in that order, the targets that are catalog data of the class
\* asked for; targets without a logical structmap are left out.
ChildTargets(doc) ==
    LET ps == SelectSeq(Flatten(SectionPtrs(doc)),
                        LAMBDA p : p.loctype = URL_STRING /\ p.href # 0)
    IN  [i \in 1..Len(ps) |-> ps[i].href]

Fatal(d) ==
    /\ catalog[d].structmap
    /\ \/ get_object_type_from_xml(catalog[d]) \in Raised
       \/ Construct(catalog[d]) # "ok"

Wanted(f) ==
    CASE f = "articles" -> "Article" [] f = "volumes" -> "Volume" [] f = "issues" -> "Issue"

C10_SkipAndContinue ==
    (last.op = "get" /\ last.field \in {"articles", "volumes", "issues"} /\ last.fetched # <<>>)
    => LET targets == ChildTargets(catalog[objs[last.obj].doc])
       IN  (\A i \in 1..Len(targets) : ~Fatal(targets[i]))
           => /\ last.outcome = "ok"
              /\ last.fetched = targets
              /\ [i \in 1..Len(last.value) |-> objs[last.value[i]].doc]
                 = SelectSeq(targets,
                             LAMBDA d : /\ catalog[d].structmap
                                        /\ get_object_type_from_xml(catalog[d]) = Wanted(last.field))

\* the first target was no catalog data and the one after it was resolved
C10_Witness ==
    /\ last.op = "get" /\ last.outcome = "ok" /\ Len(last.fetched) = 2
    /\ ~catalog[last.fetched[1]].structmap
    /\ last.value # <<>>
    /\ objs[last.value[1]].doc = last.fetched[2]

\* C11 (as claimed): a document whose header names no known type, to which
\* the author and page rule does not apply, and which has no allow-listed
\* div ends classification in the TypeError that says no type was found.
C11_FatalTypeError ==
    (/\ ctype # "pending"
     /\ ~(cdoc.header.present /\ KnownAt(cdoc.header.specs) # {})
     /\ ~(cdoc.meta.present /\ is_author_in_metadata(cdoc.meta) /\ has_pages(cdoc.meta))
     /\ cdoc.secs = <<>>)
    => ctype = "TypeError"

\* ------------------------------------------------- operations on a File
MaxSizeLen == 2
MaxLocations == 1
MaxDownloads == 2

SizeChars == {"1", "2", "k"}
SizeTexts == {NoString} \cup {Str(s) : s \in SeqsUpTo(SizeChars, MaxSizeLen)}
Locations == SeqsUpTo([loctype : {URL_STRING, "OTHER"}, href : {NoUrl, 1, 3}], MaxLocations)

FileElements ==
    {NoElement} \cup
    {FileElement(FileId("MAX", 1), sz, cr, fl) :
        sz \in SizeTexts, cr \in {"absent", "ok", "bad"}, fl \in Locations}

IdleRest == IdleResolver /\ IdleClassify /\ IdleDate /\ IdleNum /\ IdleLate

\* file = File(), next to an element of the document and an importer
InitFile ==
    /\ xml_element \in FileElements
    /\ file = File
    /\ downloads = 0
    /\ \E d \in BOOLEAN :
          fcall = [op |-> "init", outcome |-> "ok", text |-> NoString, debug_mode |-> d]
    /\ IdleRest /\ IdlePage /\ IdlePhys /\ IdleAlto

FileDone(op, r, text, n) ==
    /\ downloads + n <= MaxDownloads
    /\ file' = r.file
    /\ downloads' = downloads + n
    /\ fcall' = [fcall EXCEPT !.op = op, !.outcome = r.outcome, !.text = text]
    /\ UNCHANGED <<xml_element, resolverVars, classifyVars, dateVars, numVars,
                   pageVars, physVars, altoVars, lateVars>>

\* file.parse_properties_from_xml_element(xml_element) on the new File
ParseProperties ==
    /\ fcall.op = "init"
    /\ FileDone("parse", parse_properties_from_xml_element(file, xml_element), NoString, 0)

\* file = importer._get_file_from_metadata(xml_element)
GetFileFromMetadata ==
    /\ fcall.op = "init"
    /\ FileDone("import", get_file_from_metadata(xml_element, fcall.debug_mode), NoString, 0)

\* file.download_file_data_from_source()
Download ==
    /\ downloads < MaxDownloads
    /\ FileDone("download", download_file_data_from_source(file), NoString, 1)

\* file.get_data_in_base64_encoding()
GetBase64 ==
    \E r \in {get_data_in_base64_encoding(file)} : FileDone("base64", r, r.text, r.fetched)

NextFile == ParseProperties \/ GetFileFromMetadata \/ Download \/ GetBase64

SpecFile == InitFile /\ [][NextFile]_vars

\* base64 text back to bytes, four characters to three bytes
B64Index(c) == (CHOOSE i \in 1..64 : B64Alphabet[i] = c) - 1

RECURSIVE b64decode(_)
b64decode(t) ==
    IF t = <<>> THEN <<>>
    ELSE LET a == B64Index(t[1])
             b == B64Index(t[2])
         IN  IF t[3] = "=" THEN <<a * 4 + (b \div 16)>>
             ELSE IF t[4] = "="
             THEN <<a * 4 + (b \div 16), (b % 16) * 16 + (B64Index(t[3]) \div 4)>>
             ELSE <<a * 4 + (b \div 16), (b % 16) * 16 + (B64Index(t[3]) \div 4),
                    (B64Index(t[3]) % 4) * 64 + B64Index(t[4])>>
                  \o b64decode(SubSeq(t, 5, Len(t)))

\* C16: a File holds data only after a download, or when an importer in debug
\* mode built it: never after construction or parse_properties_from_xml_element
\* alone. get_data_in_base64_encoding downloads once if data is None and not
\* at all if data is set, keeps data that is set, and returns text that
\* decodes to the bytes the File holds.
C16_DataOnDemand ==
    /\ [](~file.data.none => /\ fcall.op \notin {"init", "parse"}
                              /\ (downloads > 0 \/ fcall.debug_mode))
    /\ [][fcall'.op = "base64"
          => /\ downloads' = downloads + (IF file.data.none THEN 1 ELSE 0)
             /\ ~file.data.none => (file'.data = file.data /\ fcall'.outcome = "ok")
             /\ fcall'.outcome = "ok"
                => /\ ~file'.data.none
                   /\ ~fcall'.text.none
                   /\ b64decode(fcall'.text.s) = file'.data.b]_vars

\* the encoding call downloaded the three bytes at URL 3 and returned "/wAQ"
C16_Witness ==
    /\ fcall.op = "base64" /\ fcall.outcome = "ok"
    /\ downloads = 1
    /\ file.data = Data(Served(3))
    /\ fcall.text = Str(<<"/", "w", "A", "Q">>)

\* C17 (as claimed): parsing an element whose SIZE is absent or no integer,
\* and which is otherwise well formed, ends without error with size 0.
WellFormedBesidesSize(el) ==
    /\ el.present
    /\ el.created # "bad"
    /\ \A i \in 1..Len(el.flocat) : el.flocat[i].loctype = URL_STRING

C17_InvalidSizeIsZero ==
    (/\ fcall.op = "parse"
     /\ WellFormedBesidesSize(xml_element)
     /\ (xml_element.size.none \/ ~IsIntText(xml_element.size.s)))
    => (fcall.outcome = "ok" /\ file.size = 0)

\* ------------------------------------------ parsing of one transcription
MaxWords == 2
MaxLines == 2

Nodes == {Word(Str(<<"a">>)), Word(NoString), TextNode}
Transcriptions == SeqsUpTo(SeqsUpTo(Nodes, MaxWords), MaxLines)

InitAlto ==
    /\ alto_xml \in Transcriptions
    /\ full_text = [outcome |-> "pending", text |-> <<>>]
    /\ IdleRest /\ IdlePage /\ IdlePhys /\ IdleFile

ParseAlto ==
    /\ full_text.outcome = "pending"
    /\ full_text' = parse_alto_xml_to_full_text_string(alto_xml)
    /\ UNCHANGED <<alto_xml, resolverVars, classifyVars, dateVars, numVars,
                   pageVars, physVars, fileVars, lateVars>>

SpecAlto == InitAlto /\ [][ParseAlto]_vars

\* C15: a transcription whose lines hold elements only parses to the lines
\* joined by one newline, with no newline after the last line and the empty
\* string for no line; a line is its tokens one after the other, a token the
\* CONTENT attribute of the element or one space where the element has none.
Token(word) == IF word.content.none THEN <<" ">> ELSE word.content.s

LineString(line) == Flatten([i \in 1..Len(line) |-> Token(line[i])])

RECURSIVE JoinedByNewline(_)
JoinedByNewline(lines) ==
    IF lines = <<>> THEN <<>>
    ELSE IF Len(lines) = 1 THEN LineString(lines[1])
    ELSE LineString(Head(lines)) \o <<"\n">> \o JoinedByNewline(Tail(lines))

ElementsOnly(alto) == \A i \in 1..Len(alto) : \A j \in 1..Len(alto[i]) : alto[i][j].tag

C15_LinesJoinedByNewline ==
    (full_text.outcome # "pending" /\ ElementsOnly(alto_xml))
    => /\ full_text.outcome = "ok"
       /\ full_text.text = JoinedByNewline(alto_xml)

\* two lines of two tokens each, a word and a space, parsed to "a \n a"
C15_Witness ==
    /\ full_text.outcome = "ok"
    /\ alto_xml = << <<Word(Str(<<"a">>)), Word(NoString)>>,
                     <<Word(NoString), Word(Str(<<"a">>))>> >>
    /\ full_text.text = <<"a", " ", "\n", " ", "a">>

\* ---------------------------------------------- the getters of one Page
MaxFilePointers == 2
MaxFiles == 2

Uses == {SUBSTRING_IN_THUMBNAIL_ID, SUBSTRING_IN_FULL_TEXT_ID, "OCR"}
PointerIds == {FileId(u, 1) : u \in Uses}

\* a well formed element, one with a SIZE that is no integer, and one whose
\* location is no URL
PageFileElements ==
    {FileElement(id, Str(<<"1", "2">>), "ok", <<[loctype |-> URL_STRING, href |-> 1]>>) :
        id \in PointerIds}
    \cup {FileElement(id, Str(<<"1", "k">>), "absent", <<[loctype |-> URL_STRING, href |-> 1]>>) :
        id \in PointerIds}
    \cup {FileElement(id, NoString, "absent", <<[loctype |-> "OTHER", href |-> 1]>>) :
        id \in PointerIds}

InitPage ==
    /\ file_pointer \in SeqsUpTo(PointerIds, MaxFilePointers)
    /\ xml_files \in SeqsUpTo(PageFileElements, MaxFiles)
    /\ got = [getter |-> "", value |-> Value("pending", "None", File, NoId, <<>>)]
    /\ IdleRest /\ IdlePhys /\ IdleAlto /\ IdleFile

\* page.<getter>
GetPageField(getter) ==
    /\ got.value.outcome = "pending"
    /\ got' = [getter |-> getter, value |-> page_getattr(file_pointer, xml_files, getter)]
    /\ UNCHANGED <<xml_files, file_pointer, resolverVars, classifyVars, dateVars, numVars,
                   physVars, altoVars, fileVars, lateVars>>

NextPage == \E getter \in PageFields : GetPageField(getter)

SpecPage == InitPage /\ [][NextPage]_vars

\* C12 (as claimed): thumbnail, the three image getters and full_text return
\* None, and raise nothing, when no pointer of the page has a fileid that
\* contains the getter's marker.
NoPointerFor(getter) ==
    \A i \in 1..Len(file_pointer) : ~Contains(Marker(getter), file_pointer[i])

C12_AbsentIsNone ==
    (/\ got.getter \in FileGetters \cup {"full_text"}
     /\ NoPointerFor(got.getter))
    => got.value = ReturnNone

\* C13 (as claimed): with a pointer for the getter's marker, the getter ends
\* in ValueError when the document has no mets:file with the pointer's
\* fileid, and returns the File of the first mets:file with that fileid when
\* there is one.
PointedId(getter) ==
    file_pointer[Min({i \in 1..Len(file_pointer) : Contains(Marker(getter), file_pointer[i])})]

Defined(id) == \E i \in 1..Len(xml_files) : xml_files[i].id = id

FirstDefined(id) == xml_files[Min({i \in 1..Len(xml_files) : xml_files[i].id = id})]

C13_FileOfPointer ==
    (got.getter \in FileGetters /\ ~NoPointerFor(got.getter))
    => IF Defined(PointedId(got.getter))
       THEN /\ got.value.outcome = "ok" /\ got.value.kind = "File"
            /\ got.value.file.name = PointedId(got.getter)
       ELSE got.value = Raise("ValueError")

\* C13 (amended): as above, where the mets:file parses: its SIZE is absent or
\* an integer, its CREATED is absent or in the expected format, and each of
\* its locations is a URL. The File then has the fields of that element.
Parses(el) ==
    /\ el.size.none \/ IsIntText(el.size.s)
    /\ WellFormedBesidesSize(el)

C13_FileOfPointerThatParses ==
    (got.getter \in FileGetters /\ ~NoPointerFor(got.getter))
    => IF ~Defined(PointedId(got.getter)) THEN got.value = Raise("ValueError")
       ELSE Parses(FirstDefined(PointedId(got.getter)))
            => /\ got.value.outcome = "ok" /\ got.value.kind = "File"
               /\ got.value.file.name = PointedId(got.getter)
               /\ got.value.file.url = FirstDefined(PointedId(got.getter)).flocat[1].href
               /\ got.value.file.data.none

\* thumbnail returned the File of the second mets:file, the one with the id
\* of the pointer
C13_Witness ==
    /\ got.getter = "thumbnail" /\ got.value.kind = "File"
    /\ Len(xml_files) = 2
    /\ xml_files[1].id # got.value.file.name
    /\ xml_files[2].id = got.value.file.name
    /\ got.value.file.size = 12

\* ------------------------------------------------ the pages of an element
MaxDivs == 3

PhysDiv(type, id, order) == [type |-> type, id |-> id, order |-> order]

\* the ids Visual Library gives out, an id without prefix, and two ids that
\* hold the prefix further in
DivIds == {PHYS \o <<"1">>, PHYS \o <<"2">>, <<"1">>,
           <<"p">> \o PHYS \o <<"h", "y", "s", "1">>, <<"1">> \o PHYS \o <<"2">>}

\* the divs below the physical structmap in document order, each with its
\* position as ORDER
PhysicalMaps ==
    {[present |-> FALSE, divs |-> <<>>]} \cup
    {[present |-> TRUE,
      divs |-> [i \in 1..Len(ds) |-> PhysDiv(ds[i][1], ds[i][2], i)]] :
        ds \in SeqsUpTo({PAGE_STRING, "physSequence"} \X DivIds, MaxDivs)}

\* element._pages = None after construction
InitPhys ==
    /\ physical \in PhysicalMaps
    /\ page_list = [accesses |-> 0, outcome |-> "ok", value |-> <<>>,
                    cached |-> [none |-> TRUE, value |-> <<>>]]
    /\ IdleRest /\ IdlePage /\ IdleAlto /\ IdleFile

\* element.pages
GetPages ==
    /\ page_list.accesses < 2
    /\ \E r \in {pages(page_list.cached, physical)} :
          page_list' = [accesses |-> page_list.accesses + 1,
                        outcome |-> r.outcome, value |-> r.value,
                        cached |-> IF r.outcome = "ok"
                                   THEN [none |-> FALSE, value |-> r.value]
                                   ELSE page_list.cached]
    /\ UNCHANGED <<physical, resolverVars, classifyVars, dateVars, numVars,
                   pageVars, altoVars, fileVars, lateVars>>

SpecPhys == InitPhys /\ [][GetPages]_vars

\* C14: pages never raises; without a physical structmap it is the empty
\* list, and with one it holds a Page for each div of type page and for no
\* other div, in document order.
OrdersOfPageDivs ==
    LET S == {i \in 1..Len(physical.divs) : physical.divs[i].type = PAGE_STRING}
        RECURSIVE Up(_)
        Up(n) == IF n > Len(physical.divs) THEN <<>>
                 ELSE (IF n \in S THEN <<n>> ELSE <<>>) \o Up(n + 1)
    IN  Up(1)

HasAuthorRole(meta) == \E i \in 1..Len(meta.roles) : meta.roles[i] \in {"aut", "asn"}

C18_AuthorAndPagesIsArticle ==
    (/\ ctype # "pending"
     /\ ~(cdoc.header.present /\ KnownAt(cdoc.header.specs) # {})
     /\ cdoc.meta.present /\ HasAuthorRole(cdoc.meta) /\ has_pages(cdoc.meta))
    => ctype = "Article"

\* C19 (as claimed): when the header names no known type and the author and
\* page rule does not apply, the class follows the nesting depth d of the
\* div that holds the id among the allow-listed divs: d = 1 -> Journal;
\* d >= 3 -> Issue; d = 2 -> Article when no allow-listed div below the own
\* div carries a resource pointer, and Volume otherwise. Every document with
\* at least one allow-listed div gets exactly one of the four classes.
RECURSIVE NestingDepth(_, _)
NestingDepth(secs, i) ==
    IF secs[i].par = 0 THEN 1 ELSE 1 + NestingDepth(secs, secs[i].par)

ClassOfDepth(doc) ==
    IF NestingDepth(doc.secs, doc.idpos) = 1 THEN "Journal"
    ELSE IF NestingDepth(doc.secs, doc.idpos) >= 3 THEN "Issue"
    ELSE IF ~subsections_have_resource_pointer(doc) THEN "Article"
    ELSE "Volume"

C19_ClassOfNestingDepth ==
    (/\ ctype # "pending"
     /\ cdoc.header.present /\ KnownAt(cdoc.header.specs) = {}
     /\ cdoc.meta.present /\ ~(HasAuthorRole(cdoc.meta) /\ has_pages(cdoc.meta))
     /\ cdoc.secs # <<>>)
    => /\ ctype \in ExportTypes
       /\ cdoc.idpos > 0 => ctype = ClassOfDepth(cdoc)

\* C20: on a Volume, an access to issues, articles or elements that returns
\* normally while none of the three has returned before runs one pass over
\* the child pointers: it fetches each target once, in document order, and
\* fills both lists. Once one of the three has returned, every access to any
\* of the three returns normally without a fetch: issues and articles as the
\* pass left them, elements as the issues followed by the articles.
VolumeFields == {"issues", "articles", "elements"}

Resolved(o) == \E f \in VolumeFields : first[o][f] # <<>>

C20_OnePassForVolume ==
    [][\A o \in 1..Len(objs) :
          (/\ objs[o].type = "Volume"
           /\ last'.op = "get" /\ last'.obj = o /\ last'.field \in VolumeFields)
          => /\ (~Resolved(o) /\ last'.outcome = "ok")
                => /\ last'.fetched = ChildTargets(catalog[objs[o].doc])
                   /\ \A f \in VolumeFields \ {"elements"} :
                         \A i \in 1..Len(objs'[o][f]) : objs'[objs'[o][f][i]].doc \in
                             {last'.fetched[k] : k \in 1..Len(last'.fetched)}
             /\ Resolved(o)
                => /\ last'.outcome = "ok"
                   /\ last'.fetched = <<>>
                   /\ fetchLog' = fetchLog
                   /\ objs' = objs
                   /\ last'.value = CASE last'.field = "issues" -> objs[o].issues
                                      [] last'.field = "articles" -> objs[o].articles
                                      [] last'.field = "elements" ->
                                             objs[o].issues \o objs[o].articles]_vars

\* a Volume handed out its issues from the cache after an access to its
\* articles had run the pass
C20_Witness ==
    /\ last.op = "get" /\ last.field = "issues" /\ last.outcome = "ok"
    /\ objs[last.obj].type = "Volume"
    /\ last.value # <<>> /\ last.fetched = <<>>
    /\ first[last.obj]["articles"] # <<>> /\ first[last.obj]["elements"] = <<>>
    /\ \E r \in BagToSet(fetchLog) : r.by = last.obj /\ r.what = "child"

\* C21 (as claimed): the text nodes among the children of a text line are
\* skipped: every transcription parses without error, to what it would parse
\* to with its text nodes taken out.
WithoutTextNodes(alto) ==
    [i \in 1..Len(alto) |-> SelectSeq(alto[i], LAMBDA word : word.tag)]

C21_TextNodesSkipped ==
    full_text.outcome # "pending"
    => /\ full_text.outcome = "ok"
       /\ full_text.text = JoinedByNewline(WithoutTextNodes(alto_xml))

\* ------------------------------------------------ import of one document
MaxMetsDivs == 2
MaxFptrs == 1

PdfIds == {FileId("PDF", 1), FileId("PDF", 2)}
DmdBlocks == {NoDmd, Dmd(FALSE, {}), Dmd(TRUE, {"ger"}), Dmd(TRUE, {"eng"})}
PdfElement == FileElement(FileId("PDF", 1), Str(<<"1">>), "ok", <<>>)
BadPdfElement == FileElement(FileId("PDF", 2), Str(<<"k">>), "ok", <<>>)
FileGroups == {NoFileGroup, FileGroup(<<>>), FileGroup(<<PdfElement>>),
               FileGroup(<<PdfElement, BadPdfElement>>)}

\* the first div lies in the structmap, every other one in the structmap, in
\* the div before it or in one around the div before it
MetsDivLists ==
    UNION {{ds \in [1..n -> [par : 0..MaxMetsDivs, dmd : DmdBlocks,
                             fptrs : SeqsUpTo(PdfIds, MaxFptrs)]] :
               \A i \in 1..n :
                   /\ ds[i].par < i
                   /\ i > 1 => \/ ds[i].par \in {0, i - 1}
                               \/ IsInside(ds, i - 1, ds[i].par)}
           : n \in 0..MaxMetsDivs}

IdleEarly ==
    /\ IdleResolver /\ IdleClassify /\ IdleDate /\ IdleNum
    /\ IdlePage /\ IdlePhys /\ IdleAlto /\ IdleFile

InitLang ==
    /\ mets \in [logical : BOOLEAN, divs : MetsDivLists, filegrp : FileGroups,
                 debug : BOOLEAN]
    /\ structure = [outcome |-> "pending", files |-> <<>>]
    /\ IdleEarly /\ IdleArt /\ IdleTitle /\ IdleLabel /\ IdleExport

UpdateData ==
    /\ structure.outcome = "pending"
    /\ structure' = mets_update_data(mets)
    /\ UNCHANGED <<mets, resolverVars, classifyVars, dateVars, numVars,
                   pageVars, physVars, altoVars, fileVars, artVars, titleVars, labelVars, exportVars>>

SpecLang == InitLang /\ [][UpdateData]_vars

\* C22 (as claimed): every file attached to a section has the languages of
\* the section whose file pointer names it, at any nesting depth.
C22_LanguagesOfOwningSection ==
    structure.outcome = "ok"
    => \A i \in 1..Len(mets.divs) : \A k \in 1..Len(structure.files[i]) :
           structure.files[i][k].languages = SectionLanguages(mets.divs[i]).languages

\* -------------------------------------- the fields of one Article
MaxPersons == 2

RoleTerms == {NoRole, Role(AUTHOR_SHORT_STRING), Role(PARTICIPATING_PERSON_SHORT_STRING),
              Role(PUBLISHER_SHORT_STRING)}
Persons ==
    {Person(r, g, NoString, d, NoString) :
        r \in RoleTerms, g \in {NoString, Str(<<"A">>), Str(<<"B">>)},
        d \in {NoString, Str(<<"D">>)}}
PageTexts == {NoString, Str(<<"7">>), Str(<<"2", "4", "8">>)}
Extents == {NoExtent} \cup {Extent(s, e, l) : s \in PageTexts, e \in PageTexts, l \in PageTexts}

InitArticle ==
    /\ persons \in SeqsUpTo(Persons, MaxPersons)
    /\ extent \in Extents
    /\ authors = [done |-> FALSE, list |-> <<>>]
    /\ page_range = [outcome |-> "pending", none |-> TRUE, start |-> <<>>, end |-> <<>>]
    /\ IdleEarly /\ IdleLang /\ IdleTitle /\ IdleLabel /\ IdleExport

ExtractAuthors ==
    /\ ~authors.done
    /\ authors' = [done |-> TRUE, list |-> extract_authors_from_metadata(persons)]
    /\ UNCHANGED <<persons, extent, page_range, resolverVars, classifyVars, dateVars,
                   numVars, pageVars, physVars, altoVars, fileVars, langVars, titleVars, labelVars, exportVars>>

ExtractPageRange ==
    /\ page_range.outcome = "pending"
    /\ page_range' = extract_page_range_from_metadata(extent)
    /\ UNCHANGED <<persons, extent, authors, resolverVars, classifyVars, dateVars,
                   numVars, pageVars, physVars, altoVars, fileVars, langVars, titleVars, labelVars, exportVars>>

NextArticle == ExtractAuthors \/ ExtractPageRange

SpecArticle == InitArticle /\ [][NextArticle]_vars

\* C23 (as claimed): the authors are the name entries with role code aut or
\* asn, one author per entry, in the order of the entries in the document
\* and without deduplication; entries with another role code are left out.
C23_AuthorsInDocumentOrder ==
    authors.done
    => authors.list =
           [i \in 1..Len(SelectSeq(persons, LAMBDA p : ~p.role.none /\ p.role.s \in {"aut", "asn"}))
              |-> Author(SelectSeq(persons,
                                   LAMBDA p : ~p.role.none /\ p.role.s \in {"aut", "asn"})[i])]

\* C25 (as claimed): with a start and no end element in the page extent the
\* extraction succeeds and page_range.end equals page_range.start; with
\* both, start and end are the texts of the two elements; without a page
\* extent page_range is None.
C25_PageRangeOfExtent ==
    page_range.outcome # "pending"
    => /\ ~extent.present => page_range = NoPageRange
       /\ (extent.present /\ ~extent.start.none /\ ~extent.end.none)
          => page_range = PageRange(extent.start.s, extent.end.s)
       /\ (extent.present /\ ~extent.start.none /\ extent.end.none)
          => page_range = PageRange(extent.start.s, extent.start.s)

\* ------------------------------------------- the titles of one element
MaxTitleInfos == 2
MaxLanguages == 2

TitleTexts == {NoString, Str(<<"T">>), Str(<<" ", "T">>)}
TitleInfos ==
    {TitleInfo(tr, t, n, st) :
        tr \in BOOLEAN, t \in TitleTexts, n \in {"none", "sibling", "nested"},
        st \in {NoString, Str(<<"S", " ">>)}}
WellFormedTitleInfos == {info \in TitleInfos : info.nonsort = "nested" => ~info.title.none}

InitTitles ==
    /\ title_infos \in SeqsUpTo(WellFormedTitleInfos, MaxTitleInfos)
    /\ languages \in SeqsUpTo({ISO_LANGUAGE_GERMAN, ISO_LANGUAGE_ENGLISH, ISO_LANGUAGE_FRENCH},
                              MaxLanguages)
    /\ titles = Titles("pending", PlainValue(NoString), PlainValue(NoString),
                       PlainValue(NoString))
    /\ IdleEarly /\ IdleLang /\ IdleArt /\ IdleLabel /\ IdleExport

ExtractTitles ==
    /\ titles.outcome = "pending"
    /\ titles' = extract_titles_from_metadata(title_infos, languages)
    /\ UNCHANGED <<title_infos, languages, resolverVars, classifyVars, dateVars, numVars,
                   pageVars, physVars, altoVars, fileVars, langVars, artVars,
                   labelVars, exportVars>>

SpecTitles == InitTitles /\ [][ExtractTitles]_vars

\* C24 (as claimed): with a translated title-info block, title, subtitle and
\* prefix each become a map with the same two distinct keys, the primary
\* language (the first declared language, None without one) and the
\* translated language (German, or English when the primary one is German);
\* without such a block the three stay plain values.
HasTranslated == \E i \in 1..Len(title_infos) : title_infos[i].translated

PrimaryKey == IF languages = <<>> THEN NoneType ELSE languages[1]
TranslatedKey == IF PrimaryKey = "ger" THEN "eng" ELSE "ger"

C24_TitleMaps ==
    titles.outcome # "pending"
    => /\ titles.outcome = "ok"
       /\ \A f \in {titles.title, titles.subtitle, titles.prefix} :
             IF HasTranslated
             THEN f.map /\ f.keys = {PrimaryKey, TranslatedKey} /\ Cardinality(f.keys) = 2
             ELSE ~f.map

\* ----------------------------------------- one search for a section
MaxLabelLen == 2
MaxLabelled == 2
MaxParentLabels == 1

LabelTexts == SeqsUpTo({"a", "b"}, MaxLabelLen) \ {<<>>}
Labels == {NoString} \cup {Str(t) : t \in LabelTexts}

InitLabel ==
    /\ query \in [label : Labels, sections : SeqsUpTo(Labels, MaxLabelled),
                  section_label : LabelTexts,
                  parent_labels : SeqsUpTo(LabelTexts, MaxParentLabels),
                  recursive : BOOLEAN]
    /\ found_section = [outcome |-> "pending", which |-> NoneType, fetched |-> 0]
    /\ IdleEarly /\ IdleLang /\ IdleArt /\ IdleTitle /\ IdleExport

FindSection ==
    /\ found_section.outcome = "pending"
    /\ found_section' = find_section_by_label(query)
    /\ UNCHANGED <<query, resolverVars, classifyVars, dateVars, numVars,
                   pageVars, physVars, altoVars, fileVars, langVars, artVars, titleVars, exportVars>>

SpecLabel == InitLabel /\ [][FindSection]_vars

\* C26 (as claimed): in recursive mode, when the own label is not the
\* searched one, no child label is contained in the searched label and the
\* label of a labelled child is among the ancestor-label hints, the search
\* returns normally after fetching the document that child points to.
HintedChild(q) ==
    \E i \in 1..Len(q.sections) :
        /\ ~q.sections[i].none
        /\ \E k \in 1..Len(q.parent_labels) : q.parent_labels[k] = q.sections[i].s

NoChildContained(q) ==
    \A i \in 1..Len(q.sections) :
        q.sections[i].none \/ ~IsSubstring(q.sections[i].s, q.section_label)

C26_FollowsHintedChild ==
    (/\ found_section.outcome # "pending"
     /\ query.recursive
     /\ ~(~query.label.none /\ query.label.s = query.section_label)
     /\ NoChildContained(query) /\ HintedChild(query))
    => (found_section.outcome = "ok" /\ found_section.fetched > 0)

\* C27 (as claimed): for every id of a page div, the id and the vl_id of the
\* Page are the same value, the id of the div without the prefix phys.
WithoutPrefix(s) ==
    IF Len(s) >= Len(PHYS) /\ SubSeq(s, 1, Len(PHYS)) = PHYS
    THEN SubSeq(s, Len(PHYS) + 1, Len(s)) ELSE s

C27_IdIsVlId ==
    \A i \in 1..Len(page_list.value) :
        /\ page_list.value[i].id = page_list.value[i].vl_id
        /\ page_list.value[i].id = WithoutPrefix(physical.divs[page_list.value[i].order].id)

\* C27 (amended): the same, for the ids of page divs that hold phys nowhere
\* but in front.
PrefixOnly(s) == ~IsSubstring(PHYS, WithoutPrefix(s))

C27_IdIsVlIdForPrefixOnly ==
    \A i \in 1..Len(page_list.value) :
        PrefixOnly(physical.divs[page_list.value[i].order].id)
        => /\ page_list.value[i].id = page_list.value[i].vl_id
           /\ page_list.value[i].id = WithoutPrefix(physical.divs[page_list.value[i].order].id)

\* the page of a div with the id phys1 has id 1 and vl_id 1
C27_Witness ==
    /\ page_list.accesses > 0 /\ page_list.value # <<>>
    /\ physical.divs[page_list.value[1].order].id = PHYS \o <<"1">>
    /\ page_list.value[1].id = <<"1">> /\ page_list.value[1].vl_id = <<"1">>

\* C28 (as claimed): over any sequence of accesses to articles, volumes,
\* issues and elements of one element, each child document is fetched at
\* most once.
ChildFetches(log, o, d) == CopiesIn([by |-> o, url |-> d, what |-> "child"], log)

C28_ChildFetchedOnce ==
    \A o \in 1..Len(objs) : \A d \in Docs : ChildFetches(fetchLog, o, d) <= 1

\* C29: an access to articles, volumes, issues or elements whose resolution
\* of the children ends in an error hands the error to the caller and leaves
\* the heap as it was: no flag of the element is raised, no list is stored,
\* no element is added. The same access made again runs the resolution from
\* the start: it fetches the same targets and ends in the same error.
CollectionFields == {"articles", "volumes", "issues", "elements"}

FailedAccess(l) ==
    /\ l.op = "get" /\ l.field \in CollectionFields
    /\ l.outcome # "ok"

C29_FailedPassLeavesNoCache ==
    [][FailedAccess(last')
          => /\ objs' = objs
             /\ last'.value = <<>>
             /\ last'.fetched # <<>>
             /\ (FailedAccess(last) /\ last.obj = last'.obj /\ last.field = last'.field)
                   => /\ last'.fetched = last.fetched
                      /\ last'.outcome = last.outcome]_vars

\* an access failed after its second run over the children: the targets it
\* fetched have been fetched twice, and the flags of the element are unset
C29_Witness ==
    /\ FailedAccess(last)
    /\ last.fetched # <<>>
    /\ \A k \in 1..Len(last.fetched) : ChildFetches(fetchLog, last.obj, last.fetched[k]) >= 2
    /\ ~objs[last.obj].articles_processed
    /\ ~objs[last.obj].volumes_processed
    /\ ~objs[last.obj].sections_resolved
    /\ objs[last.obj].articles = <<>> /\ objs[last.obj].volumes = <<>>
    /\ objs[last.obj].issues = <<>>

\* ------------------------------------------- the exporter's Article
MaxExported == 4
MaxSectionFiles == 2

\* what Article.__init__ reads of its section: the label and the files, a
\* set on a section of the importer, a list on any other object handed in
ExportSections ==
    {[label |-> l, files |-> [type |-> t, n |-> n]] :
        l \in {"a", "b"}, t \in {"set", "list"}, n \in 0..MaxSectionFiles}

\* self.ARTICLE_ID_COUNTER read on an instance: the instance's own attribute
\* when it has one, the attribute of the class otherwise
LookupCounter(own, class_counter) == IF own.present THEN own.v ELSE class_counter

\* Article._get_article_id: the assignment to self.ARTICLE_ID_COUNTER binds
\* an attribute of the instance; own is the instance's attribute before the
\* call, the result holds the id returned and both attributes after it
get_article_id(own, class_counter) ==
    [article_id |-> LookupCounter(own, class_counter),
     own |-> [present |-> TRUE, v |-> LookupCounter(own, class_counter) + 1],
     class_counter |-> class_counter]

\* self.files[0]
first_file(files) ==
    IF files.type = "set" THEN "TypeError"
    ELSE IF files.n = 0 THEN "IndexError"
    ELSE "ok"

\* Article(section): the id is taken before the files are read
export_Article(section, class_counter) ==
    LET g == get_article_id([present |-> FALSE, v |-> 0], class_counter)
    IN  [outcome |-> first_file(section.files),
         class_counter |-> g.class_counter,
         article |-> [id |-> g.article_id, ARTICLE_ID_COUNTER |-> g.own.v,
                      label |-> section.label, files |-> section.files.n]]

InitExport ==
    /\ ARTICLE_ID_COUNTER = 1
    /\ export_articles = <<>>
    /\ export_call = [outcome |-> "idle"]
    /\ IdleEarly /\ IdleLang /\ IdleArt /\ IdleTitle /\ IdleLabel

NewArticle(section) ==
    /\ Len(export_articles) < MaxExported
    /\ \E r \in {export_Article(section, ARTICLE_ID_COUNTER)} :
          /\ ARTICLE_ID_COUNTER' = r.class_counter
          /\ export_articles' = IF r.outcome = "ok" THEN Append(export_articles, r.article)
                                ELSE export_articles
          /\ export_call' = [outcome |-> r.outcome, section |-> section, id |-> r.article.id]
    /\ UNCHANGED <<resolverVars, classifyVars, dateVars, numVars, pageVars, physVars,
                   altoVars, fileVars, langVars, artVars, titleVars, labelVars>>

SpecExport == InitExport /\ [][\E section \in ExportSections : NewArticle(section)]_vars

\* C30 (as claimed): the k-th Article the exporter constructs in one process
\* gets the id k, so no two Articles share an id.
C30_ArticleIdsCount ==
    /\ \A k \in 1..Len(export_articles) : export_articles[k].id = k
    /\ \A j, k \in 1..Len(export_articles) :
          export_articles[j].id = export_articles[k].id => j = k

====
